---- MODULE Spec2Model ----
(***************************************************************************)
(* Model of the authentication / authorization layer of the reseller API:  *)
(* middleware/auth.ts (authAdmin, authCliente, authOptional,               *)
(* authAdminLevel and the authorization predicates), the client login of   *)
(* routes/login.ts, the registration and admin routes that fill the store, *)
(* and the proposal routes of routes/propostas.ts that consume the         *)
(* identity the middlewares attach to the request.                         *)
(*                                                                         *)
(* A value that may be undefined in JavaScript is a sequence: <<>> is      *)
(* undefined and <<v>> is the value v.                                     *)
(*                                                                         *)
(* chamada records the last call of a route without middleware and procs   *)
(* holds the requests whose handlers run one await at a time.              *)
(***************************************************************************)
EXTENDS Integers, Sequences, FiniteSets, TLC

VARIABLES now, clientes, produtos, categorias, propostas, admins, issued,
          req, resp, resourceOwnerId, ret, chamada, procs

vars == <<now, clientes, produtos, categorias, propostas, admins, issued, req,
          resp, resourceOwnerId, ret, chamada, procs>>

store == <<clientes, produtos, categorias, propostas, admins>>

-----------------------------------------------------------------------------
(* JavaScript values *)

Undefined == <<>>

Some(v) == <<v>>

\* a string-valued optional is truthy when it is defined and not ""
Truthy(o) == o # Undefined /\ o[1] # ""

-----------------------------------------------------------------------------
(* Bounds of the model *)

\* the instant at which SpecAuth and SpecPred run, in seconds
Agora == 3600

\* the clock of the running system stops here
MaxTime == 3601

\* tokens the callers keep of those the server has minted
MaxTokens == 1

\* proposals the store holds at most
MaxPropostas == 1

-----------------------------------------------------------------------------
(* Tokens: jsonwebtoken as used by login.ts and middleware/auth.ts *)

\* process.env.JWT_KEY, and a key of somebody else
JWT_KEY == "JWT_KEY"

OtherKey == "other-key"

\* expiresIn: "1h", in the seconds jsonwebtoken counts in
OneHour == 3600

NoPayload ==
  [adminLogadoId |-> Undefined, adminLogadoNome |-> Undefined,
   adminLogadoNivel |-> Undefined, clienteLogadoId |-> Undefined,
   clienteLogadoNome |-> Undefined, clienteLogadoEmail |-> Undefined,
   iat |-> Undefined, exp |-> Undefined]

\* a string that is not a JSON web token at all
Garbage == [wellFormed |-> FALSE, key |-> OtherKey, payload |-> NoPayload]

\* JwtSign without the expiresIn option: the token never expires
JwtSignNoExpiry(payload, key, expiresIn, t) ==
  [wellFormed |-> TRUE, key |-> key,
   payload |-> [payload EXCEPT !.iat = Some(t)]]

\* jwt.sign(payload, key, {expiresIn}) at instant t: iat and exp are added
JwtSign(payload, key, expiresIn, t) ==
  [wellFormed |-> TRUE, key |-> key,
   payload |-> [payload EXCEPT !.iat = Some(t), !.exp = Some(t + expiresIn)]]

\* LoginPayload with the name taken from the wrong column
LoginPayloadNomeEmail(cliente) ==
  [NoPayload EXCEPT !.clienteLogadoId = Some(cliente.id),
                    !.clienteLogadoNome = Some(cliente.email),
                    !.clienteLogadoEmail = Some(cliente.email)]

\* the claim set login.ts signs for a client record
LoginPayload(cliente) ==
  [NoPayload EXCEPT !.clienteLogadoId = Some(cliente.id),
                    !.clienteLogadoNome = Some(cliente.nome),
                    !.clienteLogadoEmail = Some(cliente.email)]

\* JwtVerify as jwt.decode would do it: the signature is not checked
JwtDecodeOnly(token, key, t) ==
  IF ~token.wellFormed
    THEN [ok |-> FALSE, name |-> "JsonWebTokenError", payload |-> NoPayload]
  ELSE IF token.payload.exp # Undefined /\ t >= token.payload.exp[1]
    THEN [ok |-> FALSE, name |-> "TokenExpiredError", payload |-> NoPayload]
  ELSE [ok |-> TRUE, name |-> "", payload |-> token.payload]

\* jwt.verify(token, key) at instant t: structure, then signature, then expiry
JwtVerify(token, key, t) ==
  IF ~token.wellFormed
    THEN [ok |-> FALSE, name |-> "JsonWebTokenError", payload |-> NoPayload]
  ELSE IF token.key # key
    THEN [ok |-> FALSE, name |-> "JsonWebTokenError", payload |-> NoPayload]
  ELSE IF token.payload.exp # Undefined /\ t >= token.payload.exp[1]
    THEN [ok |-> FALSE, name |-> "TokenExpiredError", payload |-> NoPayload]
  ELSE [ok |-> TRUE, name |-> "", payload |-> token.payload]

-----------------------------------------------------------------------------
(* The Authorization header: a string, as a sequence of pieces. A piece is  *)
(* a space, a word without spaces, or a token (which holds no space).       *)

SP == [t |-> "sp", w |-> " ", tok |-> Garbage]

Word(w) == [t |-> "word", w |-> w, tok |-> Garbage]

Tok(token) == [t |-> "tok", w |-> "", tok |-> token]

\* req.headers.authorization: absent, or a string
NoHeader == [present |-> FALSE, s |-> <<>>]

Header(s) == [present |-> TRUE, s |-> s]

\* !authorization: undefined or the empty string
HeaderFalsy(h) == ~h.present \/ h.s = <<>>

RECURSIVE SplitFrom(_, _, _)
\* s.split(" "): cur is the part being read from position i on
SplitFrom(s, i, cur) ==
  IF i > Len(s) THEN <<cur>>
  ELSE IF s[i].t = "sp" THEN <<cur>> \o SplitFrom(s, i + 1, <<>>)
  ELSE SplitFrom(s, i + 1, Append(cur, s[i]))

Split(s) == SplitFrom(s, 1, <<>>)

\* authorization.split(" ")[k], zero-based: undefined when there is no such part
Part(h, k) == IF Len(Split(h.s)) > k THEN Some(Split(h.s)[k + 1]) ELSE Undefined

\* !token: the part is undefined or the empty string
PartFalsy(p) == p = Undefined \/ p[1] = <<>>

IsBearer(p) == /\ p # Undefined
               /\ Len(p[1]) = 1
               /\ p[1][1].t = "word"
               /\ p[1][1].w = "Bearer"

\* the string handed to jwt.verify: a token, or text that is none
TokenOf(p) == IF Len(p[1]) = 1 /\ p[1][1].t = "tok" THEN p[1][1].tok ELSE Garbage

-----------------------------------------------------------------------------
(* The request object (AuthRequest) with the response it may have got *)

NoRes == [status |-> 0, erro |-> "", body |-> <<>>]

\* no route without middleware has been called yet
NoCall == [route |-> "", body |-> Undefined, falha |-> FALSE]

\* no request is being handled step by step
NoProcs == <<>>

\* no predicate has been called yet
NoRet == [fn |-> "", b |-> FALSE, v |-> Undefined]

\* a request as express hands it to the first middleware of its route
NewReq(route, mw, level, id, h) ==
  [stage |-> "middleware", route |-> route, mw |-> mw, levelRequired |-> level,
   id |-> id, authorization |-> h,
   adminLogadoId |-> Undefined, adminLogadoNome |-> Undefined,
   adminLogadoNivel |-> Undefined, clienteLogadoId |-> Undefined,
   clienteLogadoNome |-> Undefined,
   body |-> Undefined,
   nexts |-> 0, sent |-> 0, handled |-> FALSE, res |-> NoRes]

Idle == [NewReq("", "", 0, 0, NoHeader) EXCEPT !.stage = "idle"]

\* a response sent without the return: the middleware goes on to next()
ReplySemReturn(r, s, e) ==
  [r EXCEPT !.stage = "handler", !.sent = r.sent + 1, !.nexts = r.nexts + 1,
            !.res = [status |-> s, erro |-> e, body |-> <<>>]]

\* res.status(s).json({erro: e}) in a middleware: the chain stops
Reply(r, s, e) ==
  [r EXCEPT !.stage = "done", !.sent = r.sent + 1,
            !.res = [status |-> s, erro |-> e, body |-> <<>>]]

\* next(): the route handler runs next
CallNext(r) == [r EXCEPT !.stage = "handler", !.nexts = r.nexts + 1]

\* AuthError without the branch for TokenExpiredError
AuthErrorNoExpired(r, name) ==
  IF name \in {"JsonWebTokenError", "TokenExpiredError"}
    THEN Reply(r, 401, "Token inválido")
  ELSE Reply(r, 401, "Erro na autenticação")

\* the catch block shared by authAdmin, authCliente and authAdminLevel
AuthError(r, name) ==
  IF name = "TokenExpiredError" THEN Reply(r, 401, "Token expirado")
  ELSE IF name = "JsonWebTokenError" THEN Reply(r, 401, "Token inválido")
  ELSE Reply(r, 401, "Erro na autenticação")

FormatoInvalido == "Formato de token inválido. Use: Bearer <token>"

authAdmin(r, t) ==
  LET h == r.authorization
      token == Part(h, 1)
  IN IF HeaderFalsy(h) THEN Reply(r, 401, "Token não informado")
     ELSE IF PartFalsy(token) \/ ~IsBearer(Part(h, 0))
       THEN Reply(r, 401, FormatoInvalido)
     ELSE LET decode == JwtVerify(TokenOf(token), JWT_KEY, t)
          IN IF decode.ok
               THEN CallNext([r EXCEPT
                      !.adminLogadoId = decode.payload.adminLogadoId,
                      !.adminLogadoNome = decode.payload.adminLogadoNome,
                      !.adminLogadoNivel = decode.payload.adminLogadoNivel])
               ELSE AuthError(r, decode.name)

\* authCliente without the check of the scheme
authClienteAnyScheme(r, t) ==
  LET h == r.authorization
      token == Part(h, 1)
  IN IF HeaderFalsy(h) THEN Reply(r, 401, "Token não informado")
     ELSE IF PartFalsy(token) THEN Reply(r, 401, FormatoInvalido)
     ELSE LET decode == JwtVerify(TokenOf(token), JWT_KEY, t)
          IN IF decode.ok
               THEN CallNext([r EXCEPT
                      !.clienteLogadoId = decode.payload.clienteLogadoId,
                      !.clienteLogadoNome = decode.payload.clienteLogadoNome])
               ELSE AuthError(r, decode.name)

authCliente(r, t) ==
  LET h == r.authorization
      token == Part(h, 1)
  IN IF HeaderFalsy(h) THEN Reply(r, 401, "Token não informado")
     ELSE IF PartFalsy(token) \/ ~IsBearer(Part(h, 0))
       THEN Reply(r, 401, FormatoInvalido)
     ELSE LET decode == JwtVerify(TokenOf(token), JWT_KEY, t)
          IN IF decode.ok
               THEN CallNext([r EXCEPT
                      !.clienteLogadoId = decode.payload.clienteLogadoId,
                      !.clienteLogadoNome = decode.payload.clienteLogadoNome])
               ELSE AuthError(r, decode.name)

\* authOptional copying the client claims as well as the admin claims
authOptionalBoth(r, t) ==
  LET h == r.authorization
      token == Part(h, 1)
  IN IF HeaderFalsy(h) THEN CallNext(r)
     ELSE IF PartFalsy(token) \/ ~IsBearer(Part(h, 0)) THEN CallNext(r)
     ELSE LET decode == JwtVerify(TokenOf(token), JWT_KEY, t)
          IN IF decode.ok
               THEN CallNext([r EXCEPT
                      !.adminLogadoId = decode.payload.adminLogadoId,
                      !.adminLogadoNome = decode.payload.adminLogadoNome,
                      !.adminLogadoNivel = decode.payload.adminLogadoNivel,
                      !.clienteLogadoId = decode.payload.clienteLogadoId,
                      !.clienteLogadoNome = decode.payload.clienteLogadoNome])
               ELSE CallNext(r)

\* authOptional answering 401 when the token fails, as authAdmin does
authOptionalStrict(r, t) ==
  LET h == r.authorization
      token == Part(h, 1)
  IN IF HeaderFalsy(h) THEN CallNext(r)
     ELSE IF PartFalsy(token) \/ ~IsBearer(Part(h, 0)) THEN CallNext(r)
     ELSE LET decode == JwtVerify(TokenOf(token), JWT_KEY, t)
          IN IF decode.ok
               THEN CallNext([r EXCEPT
                      !.adminLogadoId = decode.payload.adminLogadoId,
                      !.adminLogadoNome = decode.payload.adminLogadoNome,
                      !.adminLogadoNivel = decode.payload.adminLogadoNivel])
               ELSE AuthError(r, decode.name)

authOptional(r, t) ==
  LET h == r.authorization
      token == Part(h, 1)
  IN IF HeaderFalsy(h) THEN CallNext(r)
     ELSE IF PartFalsy(token) \/ ~IsBearer(Part(h, 0)) THEN CallNext(r)
     ELSE LET decodeAdmin == JwtVerify(TokenOf(token), JWT_KEY, t)
              decodeCliente == JwtVerify(TokenOf(token), JWT_KEY, t)
          IN IF decodeAdmin.ok
               THEN CallNext([r EXCEPT
                      !.adminLogadoId = decodeAdmin.payload.adminLogadoId,
                      !.adminLogadoNome = decodeAdmin.payload.adminLogadoNome,
                      !.adminLogadoNivel = decodeAdmin.payload.adminLogadoNivel])
             ELSE IF decodeCliente.ok
               THEN CallNext([r EXCEPT
                      !.clienteLogadoId = decodeCliente.payload.clienteLogadoId,
                      !.clienteLogadoNome = decodeCliente.payload.clienteLogadoNome])
             ELSE CallNext(r)

\* undefined < n is false in JavaScript
LessThan(o, n) == o # Undefined /\ o[1] < n

authAdminLevel(r, t) ==
  LET h == r.authorization
      token == Part(h, 1)
  IN IF HeaderFalsy(h) THEN Reply(r, 401, "Token não informado")
     ELSE IF PartFalsy(token) \/ ~IsBearer(Part(h, 0))
       THEN Reply(r, 401, FormatoInvalido)
     ELSE LET decode == JwtVerify(TokenOf(token), JWT_KEY, t)
          IN IF decode.ok
               THEN IF LessThan(decode.payload.adminLogadoNivel, r.levelRequired)
                      THEN Reply(r, 403,
                             "Acesso negado. Nível de permissão insuficiente.")
                      ELSE CallNext([r EXCEPT
                             !.adminLogadoId = decode.payload.adminLogadoId,
                             !.adminLogadoNome = decode.payload.adminLogadoNome,
                             !.adminLogadoNivel = decode.payload.adminLogadoNivel])
               ELSE AuthError(r, decode.name)

-----------------------------------------------------------------------------
(* Authorization predicates *)

isResourceOwner(owner, r) ==
  r.clienteLogadoId = Some(owner) \/ r.adminLogadoId = Some(owner)

getLoggedUserId(r) ==
  IF Truthy(r.clienteLogadoId) THEN r.clienteLogadoId
  ELSE IF Truthy(r.adminLogadoId) THEN r.adminLogadoId
  ELSE Undefined

getUserType(r) ==
  IF Truthy(r.adminLogadoId) THEN "admin"
  ELSE IF Truthy(r.clienteLogadoId) THEN "cliente"
  ELSE "null"

\* canAccessResource without the admin bypass
canAccessResourceOwnerOnly(owner, r) ==
  r.clienteLogadoId = Some(owner) \/ r.adminLogadoId = Some(owner)

canAccessResource(owner, r) ==
  IF Truthy(r.adminLogadoId) THEN TRUE
  ELSE r.clienteLogadoId = Some(owner)

\* a decision that lets every caller in
canAccessTodos(owner, r) == TRUE

\* the inline decision without the test of the user type
canAccessSemTipo(owner, r) == r.clienteLogadoId = Some(owner)

\* the decision GET and DELETE /propostas/:id take inline
canAccess(owner, r) ==
  LET userType == getUserType(r)
  IN \/ userType = "admin"
     \/ userType = "cliente" /\ r.clienteLogadoId = Some(owner)

-----------------------------------------------------------------------------
(* The steps of a request through its middleware *)

AuthAdminStep ==
  /\ req.stage = "middleware" /\ req.mw = "authAdmin"
  /\ req' = authAdmin(req, now)
  /\ UNCHANGED <<now, store, issued, resp, resourceOwnerId, ret, chamada,
                 procs>>

AuthClienteStep ==
  /\ req.stage = "middleware" /\ req.mw = "authCliente"
  /\ req' = authCliente(req, now)
  /\ UNCHANGED <<now, store, issued, resp, resourceOwnerId, ret, chamada,
                 procs>>

AuthOptionalStep ==
  /\ req.stage = "middleware" /\ req.mw = "authOptional"
  /\ req' = authOptional(req, now)
  /\ UNCHANGED <<now, store, issued, resp, resourceOwnerId, ret, chamada,
                 procs>>

AuthAdminLevelStep ==
  /\ req.stage = "middleware" /\ req.mw = "authAdminLevel"
  /\ req' = authAdminLevel(req, now)
  /\ UNCHANGED <<now, store, issued, resp, resourceOwnerId, ret, chamada,
                 procs>>

-----------------------------------------------------------------------------
(* SpecAuth: every middleware applied to every Authorization header.  The   *)
(* tokens are all claim sets over small domains, signed with the process    *)
(* key or with another one, and text that is no token.                      *)

Opt(S) == {Undefined} \cup {Some(v) : v \in S}

PayloadsAuth ==
  [adminLogadoId : Opt({"a1"}), adminLogadoNome : Opt({"Administrador Um"}),
   adminLogadoNivel : Opt({1, 5}), clienteLogadoId : Opt({"c1", "c2"}),
   clienteLogadoNome : Opt({"Ana Cliente"}),
   clienteLogadoEmail : Opt({"a@x.com"}),
   iat : {Some(Agora - OneHour), Some(Agora - OneHour + 1)},
   exp : {Undefined, Some(Agora), Some(Agora + 1)}]

\* the client records the login tokens of SpecAuth are minted for
ClientesAuth ==
  {[id |-> i, nome |-> "Ana Cliente", email |-> "a@x.com"] : i \in {"c1", "c2"}}

\* what login.ts mints for them, an hour or a second less than an hour ago
LoginTokensAuth ==
  {JwtSign(LoginPayload(c), JWT_KEY, OneHour, t) :
     c \in ClientesAuth, t \in {Agora - OneHour, Agora - OneHour + 1}}

TokensAuth ==
  {[wellFormed |-> TRUE, key |-> k, payload |-> p] :
     k \in {JWT_KEY, OtherKey}, p \in PayloadsAuth}
  \cup LoginTokensAuth \cup {Garbage}

\* tokens for the headers whose scheme is wrong: what follows is never read
FewTokens ==
  {Garbage,
   JwtSign([NoPayload EXCEPT !.clienteLogadoId = Some("c1")], JWT_KEY,
           OneHour, Agora)}

HeadersAuth ==
  {NoHeader, Header(<<>>), Header(<<Word("Bearer")>>),
   Header(<<Word("Bearer"), SP>>), Header(<<SP>>)}
  \cup {Header(<<Word("Bearer"), SP, Tok(k)>>) : k \in TokensAuth}
  \cup UNION {{Header(<<Tok(k)>>),
               Header(<<Word("Basic"), SP, Tok(k)>>),
               Header(<<Word("bearer"), SP, Tok(k)>>),
               Header(<<Word("Bearer"), Tok(k)>>),
               Header(<<Word("Bearer"), SP, SP, Tok(k)>>),
               Header(<<SP, Word("Bearer"), SP, Tok(k)>>),
               Header(<<Word("Bearer"), SP, Tok(k), SP, Word("x")>>),
               Header(<<Word("Bearer"), SP, Tok(k), Word("x")>>)} :
              k \in FewTokens}

MiddlewaresAuth ==
  {<<"authAdmin", 0>>, <<"authCliente", 0>>, <<"authOptional", 0>>,
   <<"authAdminLevel", 1>>, <<"authAdminLevel", 3>>}

InitAuth ==
  /\ now = Agora
  /\ clientes = {} /\ produtos = {} /\ categorias = {} /\ propostas = {} /\ admins = {}
  /\ issued = {} /\ resp = NoRes /\ chamada = NoCall /\ procs = NoProcs
  /\ resourceOwnerId = "" /\ ret = NoRet
  /\ \E m \in MiddlewaresAuth, h \in HeadersAuth :
       req = NewReq("", m[1], m[2], 0, h)

NextAuth ==
  \/ AuthAdminStep
  \/ AuthClienteStep
  \/ AuthOptionalStep
  \/ AuthAdminLevelStep

SpecAuth == InitAuth /\ [][NextAuth]_vars

-----------------------------------------------------------------------------
(* The properties of SpecAuth speak of a request by the header it was       *)
(* built with and by the fields the middleware left on it.                  *)

\* the header is exactly 'Bearer <t>'
BearerHeader ==
  /\ req.authorization.present
  /\ Len(req.authorization.s) = 3
  /\ req.authorization.s[1] = Word("Bearer")
  /\ req.authorization.s[2] = SP
  /\ req.authorization.s[3].t = "tok"

\* the t of 'Bearer <t>'
Presented == req.authorization.s[3].tok

SignedByProcess(k) == k.wellFormed /\ k.key = JWT_KEY

ExpiryPast(k, t) == k.payload.exp # Undefined /\ k.payload.exp[1] <= t

\* the header is absent (or the empty string, which JavaScript takes as absent)
HeaderAbsent == req.authorization \in {NoHeader, Header(<<>>)}

\* a header that is there and is not 'Bearer <token>': wrong scheme, no token
\* after the scheme, or no single space between the two
HeaderMalformed ==
  \/ req.authorization \in
       {Header(<<Word("Bearer")>>), Header(<<Word("Bearer"), SP>>), Header(<<SP>>)}
  \/ \E k \in FewTokens :
       req.authorization \in
         {Header(<<Tok(k)>>),
          Header(<<Word("Basic"), SP, Tok(k)>>),
          Header(<<Word("bearer"), SP, Tok(k)>>),
          Header(<<Word("Bearer"), Tok(k)>>),
          Header(<<Word("Bearer"), SP, SP, Tok(k)>>),
          Header(<<SP, Word("Bearer"), SP, Tok(k)>>)}

\* 'Bearer <text>' where the text is no JSON web token
HeaderBadStructure ==
  \/ BearerHeader /\ ~Presented.wellFormed
  \/ \E k \in FewTokens :
       req.authorization = Header(<<Word("Bearer"), SP, Tok(k), Word("x")>>)

IdentityEmpty ==
  /\ req.adminLogadoId = Undefined /\ req.adminLogadoNome = Undefined
  /\ req.adminLogadoNivel = Undefined
  /\ req.clienteLogadoId = Undefined /\ req.clienteLogadoNome = Undefined

\* the middleware has run and handed the request on, sending nothing
Proceeded ==
  req.stage = "handler" /\ req.nexts = 1 /\ req.sent = 0 /\ req.res = NoRes

\* the middleware has answered s with {erro: e}; the handler never runs
Refused(s, e) ==
  /\ req.stage = "done" /\ req.nexts = 0 /\ req.sent = 1
  /\ req.res = [status |-> s, erro |-> e, body |-> <<>>]

Ran == req.stage \in {"handler", "done"}

\* a token that carries the three admin claims
HasAdminClaims(k) ==
  /\ k.payload.adminLogadoId # Undefined
  /\ k.payload.adminLogadoNome # Undefined
  /\ k.payload.adminLogadoNivel # Undefined

\* C3: a validly signed, unexpired admin token given to authOptional as
\* 'Bearer <t>' always yields the admin identity of t (id, name and level)
\* and no client field, also when t carries client claims as well.
C3_OptionalAdminFirst ==
  (/\ req.mw = "authOptional" /\ Ran /\ BearerHeader
   /\ SignedByProcess(Presented) /\ ~ExpiryPast(Presented, now)
   /\ HasAdminClaims(Presented))
  => /\ Proceeded
     /\ req.adminLogadoId = Presented.payload.adminLogadoId
     /\ req.adminLogadoNome = Presented.payload.adminLogadoNome
     /\ req.adminLogadoNivel = Presented.payload.adminLogadoNivel
     /\ req.clienteLogadoId = Undefined
     /\ req.clienteLogadoNome = Undefined

\* authOptional has resolved a valid admin token that also holds client claims
C3_Witness ==
  /\ req.mw = "authOptional" /\ Ran /\ BearerHeader
  /\ SignedByProcess(Presented) /\ ~ExpiryPast(Presented, now)
  /\ HasAdminClaims(Presented)
  /\ Presented.payload.clienteLogadoId = Some("c1")
  /\ Presented.payload.clienteLogadoNome # Undefined
  /\ req.adminLogadoId = Some("a1")

\* C4: authOptional never answers and always hands the request on, whatever
\* the header; with no header, a malformed scheme or a token that fails
\* verification the identity it leaves is empty.
C4_OptionalNeverFails ==
  (req.mw = "authOptional" /\ Ran)
  => /\ Proceeded
     /\ (\/ HeaderAbsent
         \/ HeaderMalformed
         \/ HeaderBadStructure
         \/ BearerHeader /\ ~SignedByProcess(Presented)
         \/ BearerHeader /\ ExpiryPast(Presented, now))
        => IdentityEmpty

\* authOptional has let through a request whose token is signed and expired
C4_Witness ==
  /\ req.mw = "authOptional" /\ Ran /\ BearerHeader
  /\ SignedByProcess(Presented) /\ ExpiryPast(Presented, now)
  /\ Presented.payload.clienteLogadoId = Some("c2")
  /\ req.stage = "handler"

\* C5: authAdmin and authCliente answer 401 with the message of the failure:
\* no header, scheme not Bearer or no token, expired token, token of invalid
\* signature or structure; the handler does not run and no identity is set.
C5_RequireFailures ==
  (req.mw \in {"authAdmin", "authCliente"} /\ Ran)
  => /\ HeaderAbsent => Refused(401, "Token não informado")
     /\ HeaderMalformed
          => Refused(401, "Formato de token inválido. Use: Bearer <token>")
     /\ (BearerHeader /\ SignedByProcess(Presented) /\ ExpiryPast(Presented, now))
          => Refused(401, "Token expirado")
     /\ (HeaderBadStructure \/ (BearerHeader /\ ~SignedByProcess(Presented)))
          => Refused(401, "Token inválido")
     /\ req.stage = "done" => IdentityEmpty /\ req.res.status = 401

\* authCliente has refused a header of the wrong scheme
C5_Witness ==
  /\ req.mw = "authCliente" /\ Ran
  /\ \E k \in FewTokens : req.authorization = Header(<<Word("Basic"), SP, Tok(k)>>)
  /\ req.res.status = 401

\* C7: a token signed with another secret never gives an identity: authAdmin,
\* authCliente and authAdminLevel answer 401 'Token inválido' and the handler
\* does not run; authOptional goes on with an empty identity.
C7_ForeignSignature ==
  (/\ Ran /\ BearerHeader
   /\ Presented.wellFormed /\ Presented.key # JWT_KEY)
  => /\ IdentityEmpty
     /\ req.mw \in {"authAdmin", "authCliente", "authAdminLevel"}
          => Refused(401, "Token inválido")
     /\ req.mw = "authOptional" => Proceeded

\* authAdminLevel has refused an unexpired level-5 admin claim set signed with
\* another key
C7_Witness ==
  /\ req.mw = "authAdminLevel" /\ Ran /\ BearerHeader
  /\ Presented.wellFormed /\ Presented.key = OtherKey
  /\ Presented.payload.adminLogadoNivel = Some(5)
  /\ ~ExpiryPast(Presented, now)
  /\ req.res.erro = "Token inválido"

\* C8 as stated: every token whose expiry is past is answered 401 'Token
\* expirado' by authAdmin and authCliente, whatever its signature.
C8_ExpiredWhateverSignature ==
  (/\ req.mw \in {"authAdmin", "authCliente"} /\ Ran /\ BearerHeader
   /\ Presented.wellFormed /\ ExpiryPast(Presented, now))
  => Refused(401, "Token expirado")

\* C8 amended: a token signed with the process secret whose expiry is past is
\* answered 401 'Token expirado'; one whose signature is invalid is answered
\* 401 'Token inválido' even when its expiry is past.
C8_ExpiredWhenSigned ==
  (/\ req.mw \in {"authAdmin", "authCliente"} /\ Ran /\ BearerHeader
   /\ Presented.wellFormed /\ ExpiryPast(Presented, now))
  => IF Presented.key = JWT_KEY
       THEN Refused(401, "Token expirado")
       ELSE Refused(401, "Token inválido")

\* authAdmin has refused a signed token at the very instant of its expiry
C8_Witness ==
  /\ req.mw = "authAdmin" /\ Ran /\ BearerHeader
  /\ SignedByProcess(Presented) /\ Presented.payload.exp = Some(now)
  /\ req.res.erro = "Token expirado"

\* C9: a claim set signed with the process secret and presented before its
\* expiry comes back unchanged: authCliente attaches exactly the signed client
\* id and name, authAdmin exactly the signed admin id, name and level; a
\* token login mints for client c gives clienteLogadoId = c.id and
\* clienteLogadoNome = c.nome.
C9_RoundTrip ==
  /\ (/\ Ran /\ BearerHeader /\ SignedByProcess(Presented)
      /\ ~ExpiryPast(Presented, now))
     => /\ req.mw = "authCliente"
             => /\ Proceeded
                /\ req.clienteLogadoId = Presented.payload.clienteLogadoId
                /\ req.clienteLogadoNome = Presented.payload.clienteLogadoNome
        /\ req.mw = "authAdmin"
             => /\ Proceeded
                /\ req.adminLogadoId = Presented.payload.adminLogadoId
                /\ req.adminLogadoNome = Presented.payload.adminLogadoNome
                /\ req.adminLogadoNivel = Presented.payload.adminLogadoNivel
  /\ \A c \in ClientesAuth :
       (/\ req.mw = "authCliente" /\ Ran
        /\ req.authorization =
             Header(<<Word("Bearer"), SP,
                      Tok(JwtSign(LoginPayload(c), JWT_KEY, OneHour,
                                  now - OneHour + 1))>>))
       => /\ Proceeded
          /\ req.clienteLogadoId = Some(c.id)
          /\ req.clienteLogadoNome = Some(c.nome)

\* authCliente has let through the token login minted for client c2 one second
\* before its expiry
C9_Witness ==
  /\ req.mw = "authCliente" /\ req.stage = "handler"
  /\ req.authorization =
       Header(<<Word("Bearer"), SP,
                Tok(JwtSign(LoginPayload([id |-> "c2", nome |-> "Ana Cliente",
                                          email |-> "a@x.com"]),
                            JWT_KEY, OneHour, now - OneHour + 1))>>)
  /\ req.clienteLogadoId = Some("c2")

-----------------------------------------------------------------------------
(* SpecPred: the authorization predicates applied to every identity context *)
(* over small domains of identifiers, and to every owner identifier.        *)

\* authResourceAccess(resourceOwnerId): the middleware made of canAccessResource
authResourceAccess(owner, r) ==
  IF ~canAccessResource(owner, r)
    THEN Reply(r, 403, "Acesso negado a este recurso")
    ELSE CallNext(r)

IdsPred == {"", "a1", "c1", "c2"}

InitPred ==
  /\ now = Agora
  /\ clientes = {} /\ produtos = {} /\ categorias = {} /\ propostas = {} /\ admins = {}
  /\ issued = {} /\ resp = NoRes /\ chamada = NoCall /\ procs = NoProcs
  /\ ret = NoRet
  /\ resourceOwnerId \in IdsPred
  /\ \E a \in Opt(IdsPred), c \in Opt(IdsPred) :
       req = [NewReq("", "authResourceAccess", 0, 0, NoHeader) EXCEPT
                !.adminLogadoId = a, !.clienteLogadoId = c]

CallCanAccessResource ==
  /\ ret = NoRet
  /\ ret' = [fn |-> "canAccessResource",
             b |-> canAccessResource(resourceOwnerId, req), v |-> Undefined]
  /\ UNCHANGED <<now, store, issued, req, resp, resourceOwnerId, chamada,
                 procs>>

CallIsResourceOwner ==
  /\ ret = NoRet
  /\ ret' = [fn |-> "isResourceOwner",
             b |-> isResourceOwner(resourceOwnerId, req), v |-> Undefined]
  /\ UNCHANGED <<now, store, issued, req, resp, resourceOwnerId, chamada,
                 procs>>

CallGetUserType ==
  /\ ret = NoRet
  /\ ret' = [fn |-> "getUserType", b |-> FALSE, v |-> Some(getUserType(req))]
  /\ UNCHANGED <<now, store, issued, req, resp, resourceOwnerId, chamada,
                 procs>>

CallGetLoggedUserId ==
  /\ ret = NoRet
  /\ ret' = [fn |-> "getLoggedUserId", b |-> FALSE, v |-> getLoggedUserId(req)]
  /\ UNCHANGED <<now, store, issued, req, resp, resourceOwnerId, chamada,
                 procs>>

AuthResourceAccessStep ==
  /\ req.stage = "middleware" /\ req.mw = "authResourceAccess"
  /\ req' = authResourceAccess(resourceOwnerId, req)
  /\ UNCHANGED <<now, store, issued, resp, resourceOwnerId, ret, chamada,
                 procs>>

\* the decision of GET and DELETE /propostas/:id on a proposal of the owner
CallCanAccess ==
  /\ ret = NoRet
  /\ ret' = [fn |-> "canAccess", b |-> canAccess(resourceOwnerId, req),
             v |-> Undefined]
  /\ UNCHANGED <<now, store, issued, req, resp, resourceOwnerId, chamada,
                 procs>>

NextPred ==
  \/ CallCanAccessResource
  \/ CallCanAccess
  \/ CallIsResourceOwner
  \/ CallGetUserType
  \/ CallGetLoggedUserId
  \/ AuthResourceAccessStep

SpecPred == InitPred /\ [][NextPred]_vars

\* an admin identity is present: the admin identifier is a non-empty string
AdminPresent == req.adminLogadoId \notin {Undefined, Some("")}

ClientPresent == req.clienteLogadoId \notin {Undefined, Some("")}

\* C10: canAccessResource(ownerId, ctx) is true whenever an admin identity is
\* present, whatever ownerId; with a client identity and no admin identity it
\* is true exactly when the client id equals ownerId; for the empty context
\* it is false for every ownerId.
C10_CanAccessResource ==
  ret.fn = "canAccessResource"
  => /\ AdminPresent => ret.b
     /\ (~AdminPresent /\ ClientPresent)
          => (ret.b <=> req.clienteLogadoId = Some(resourceOwnerId))
     /\ (req.adminLogadoId = Undefined /\ req.clienteLogadoId = Undefined)
          => ~ret.b

\* canAccessResource has granted an admin a resource that another client owns
\* while the context also holds a client identity that is not the owner
C10_Witness ==
  /\ ret.fn = "canAccessResource" /\ ret.b
  /\ req.adminLogadoId = Some("a1")
  /\ req.clienteLogadoId = Some("c1")
  /\ resourceOwnerId = "c2"

-----------------------------------------------------------------------------
(* Spec: the running server.  Clients register and log in, proposals are    *)
(* made, and one request at a time goes through the middleware of its       *)
(* proposal route and then through the handler.                             *)

\* the identifiers the store gives to client records (uuid)
ClienteIds == {"c1", "c2"}

\* the catalogue the store starts with; routes/produtos and
\* routes/categorias maintain it
CategoriasIniciais == {[id |-> 1, nome |-> "Graos"]}

ProdutosIniciais == {[id |-> 1, nome |-> "Soja", categoriaId |-> 1]}

\* bcrypt.hashSync(senha, salt) and bcrypt.compareSync(senha, hash)
Hash(senha) == <<"bcrypt", senha>>

CompareSync(senha, hash) == hash = Hash(senha)

\* !x for an optional string
Falsy(o) == ~Truthy(o)

\* res.status(s).json(...) of a handler that no middleware precedes
Answer(s, e) == [status |-> s, erro |-> e, body |-> <<>>]

\* res.status(s).json(b), b an object that is no {erro: ...}
AnswerBody(s, b) == [status |-> s, erro |-> "", body |-> Some(b)]

\* a query that returns the record as the table holds it
SelectTudo(registro, campos) == registro

\* select: {...} of a Prisma query: the fields named, and no other
Select(registro, campos) == [f \in campos |-> registro[f]]

\* the fields of the client and of the admin the proposal routes select
CamposCliente == {"id", "nome", "email", "cidade"}

CamposAdmin == {"id", "nome", "email"}

\* include: {cliente: {select}, admin: {select}} of the proposal queries: the
\* proposal with its client and, when the query includes it and the proposal
\* has one, its admin
Incluir(p, camposCliente, camposAdmin) ==
  [id |-> p.id, clienteId |-> p.clienteId, produtoId |-> p.produtoId,
   descricao |-> p.descricao, resposta |-> p.resposta, adminId |-> p.adminId,
   cliente |-> Select(CHOOSE c \in clientes : c.id = p.clienteId,
                      camposCliente),
   admin |-> IF camposAdmin = {} \/ p.adminId = Undefined THEN Undefined
             ELSE Some(Select(CHOOSE a \in admins : a.id = p.adminId[1],
                              camposAdmin))]

\* the call of a route without middleware: its body, and whether a store
\* operation it awaited was rejected
Call(route, body, falha) == [route |-> route, body |-> Some(body), falha |-> falha]

\* the message of the catch blocks of login.ts and of the cadastro router
ErroInterno == "Erro interno no servidor"

\* the clock moves on: to one second before an hour has passed, to the full
\* hour, or to one second after it
Tick ==
  /\ \E d \in {OneHour - 1, OneHour, OneHour + 1} :
       /\ now + d <= MaxTime
       /\ now' = now + d
  /\ UNCHANGED <<store, issued, req, resp, resourceOwnerId, ret, chamada,
                 procs>>

\* a lookup that never finds the record
NuncaExiste(tabela, email) == FALSE

\* findFirst({where: {email}}) has found a record of the table
EmailExiste(tabela, email) == \E c \in tabela : c.email = email

CadastroBody(nome, email, senha, cidade) ==
  [nome |-> nome, email |-> email, senha |-> senha, cidade |-> cidade]

CadastroBodies ==
  {CadastroBody(Some("Ana"), Some("a@x.com"), Some("s1"), Some("Pelotas")),
   CadastroBody(Some("Bia"), Some("b@x.com"), Some("s1"), Some("Pelotas")),
   CadastroBody(Some("Ana"), Some("a@x.com"), Some(""), Undefined)}

\* POST /clientes/cadastro
Cadastro ==
  /\ \E body \in CadastroBodies, falha \in BOOLEAN :
       LET incompleto == Falsy(body.nome) \/ Falsy(body.email)
                         \/ Falsy(body.senha) \/ Falsy(body.cidade)
       IN /\ chamada' = Call("POST /clientes/cadastro", body, falha /\ ~incompleto)
          /\ IF incompleto
               THEN /\ resp' = Answer(400, "Todos os campos são obrigatórios")
                    /\ UNCHANGED clientes
             ELSE IF falha
               THEN /\ resp' = Answer(500, ErroInterno)
                    /\ UNCHANGED clientes
             ELSE IF EmailExiste(clientes, body.email[1])
               THEN /\ resp' = Answer(400, "E-mail já cadastrado")
                    /\ UNCHANGED clientes
             ELSE \E i \in ClienteIds :
                    /\ \A c \in clientes : c.id # i
                    /\ clientes' = clientes \cup
                         {[id |-> i, nome |-> body.nome[1],
                           email |-> body.email[1],
                           senha |-> Hash(body.senha[1]),
                           cidade |-> body.cidade[1]]}
                    /\ resp' = AnswerBody(201,
                         [id |-> i, nome |-> body.nome[1],
                          email |-> body.email[1], cidade |-> body.cidade[1]])
  /\ UNCHANGED <<now, produtos, categorias, propostas, admins, issued, req,
                 resourceOwnerId, ret, procs>>

LoginBodies ==
  [email : {Some("a@x.com"), Some("b@x.com")}, senha : {Some("s1"), Some("s2")}]
  \cup {[email |-> Undefined, senha |-> Some("s1")]}

mensaPadrao == "Login ou senha incorretos"

\* a refusal that tells the caller which of the two was wrong
RecusaReveladora(motivo) ==
  IF motivo = "email" THEN Answer(404, "Cliente não encontrado")
  ELSE Answer(400, mensaPadrao)

\* the answer of login to a request it refuses, whatever the motive: a
\* missing field ("campos"), no such email ("email") or a wrong password
\* ("senha")
Recusa(motivo) == Answer(400, mensaPadrao)

\* POST /clientes/login; the caller keeps the token it is given
Login ==
  /\ \E body \in LoginBodies, falha \in BOOLEAN :
       LET incompleto == Falsy(body.email) \/ Falsy(body.senha)
       IN /\ chamada' = Call("POST /clientes/login", body, falha /\ ~incompleto)
          /\ IF incompleto
               THEN resp' = Recusa("campos") /\ UNCHANGED issued
             ELSE IF falha
               THEN resp' = Answer(500, ErroInterno) /\ UNCHANGED issued
             ELSE IF ~\E c \in clientes : c.email = body.email[1]
               THEN resp' = Recusa("email") /\ UNCHANGED issued
             ELSE LET cliente == CHOOSE c \in clientes : c.email = body.email[1]
                      token == JwtSign(LoginPayload(cliente), JWT_KEY, OneHour, now)
                  IN IF ~CompareSync(body.senha[1], cliente.senha)
                       THEN resp' = Recusa("senha") /\ UNCHANGED issued
                       ELSE /\ Cardinality(issued \cup {token}) <= MaxTokens
                            /\ issued' = issued \cup {token}
                            /\ resp' = AnswerBody(200,
                                 [id |-> cliente.id, nome |-> cliente.nome,
                                  email |-> cliente.email, token |-> token])
  /\ UNCHANGED <<now, store, req, resourceOwnerId, ret, procs>>

\* a caller throws a token away
Discard ==
  /\ \E k \in issued : issued' = issued \ {k}
  /\ UNCHANGED <<now, store, req, resp, resourceOwnerId, ret, chamada, procs>>

\* the least length propostaSchema accepts for descricao
MinDescricao == 10

\* the least length of the answer of an admin
MinResposta == 5

\* the length of a description
DescLen(d) == IF d = "curta" THEN 5 ELSE 15

\* z.string().uuid(): the identifiers of the store are uuids
IsUuid(x) == x \in ClienteIds

PropostaBody(clienteId, produtoId, descricao) ==
  [clienteId |-> clienteId, produtoId |-> produtoId, descricao |-> descricao]

PropostaBodies ==
  {PropostaBody(c, 1, "quero dez sacas") : c \in ClienteIds}
  \cup {PropostaBody("nao-uuid", 1, "quero dez sacas"),
        PropostaBody("c1", 2, "quero dez sacas"),
        PropostaBody("c1", 1, "curta")}

\* POST /propostas; the new row takes the first identifier that is free
CriarProposta ==
  /\ \E body \in PropostaBodies :
       /\ chamada' = Call("POST /propostas", body, FALSE)
       /\ IF ~IsUuid(body.clienteId) \/ body.produtoId < 1
             \/ DescLen(body.descricao) < MinDescricao
            THEN resp' = Answer(400, "valida.error.errors") /\ UNCHANGED propostas
          ELSE IF ~\E c \in clientes : c.id = body.clienteId
            THEN resp' = Answer(400, "Cliente não encontrado") /\ UNCHANGED propostas
          ELSE IF ~\E p \in produtos : p.id = body.produtoId
            THEN resp' = Answer(400, "Produto não encontrado") /\ UNCHANGED propostas
          ELSE LET usados == {p.id : p \in propostas}
                   proposta ==
                     [id |-> CHOOSE n \in 1..(MaxPropostas + 1) :
                               /\ n \notin usados
                               /\ \A m \in 1..(n - 1) : m \in usados,
                      clienteId |-> body.clienteId,
                      produtoId |-> body.produtoId,
                      descricao |-> body.descricao,
                      resposta |-> Undefined, adminId |-> Undefined]
               IN /\ Cardinality(propostas) < MaxPropostas
                  /\ propostas' = propostas \cup {proposta}
                  /\ resp' = AnswerBody(201,
                       {Incluir(proposta, CamposCliente, {})})
  /\ UNCHANGED <<now, clientes, produtos, categorias, admins, issued, req,
                 resourceOwnerId, ret, procs>>

\* the proposal routes the requests of Spec address, with their middleware
Routes ==
  {<<"GET /propostas", "authAdmin">>,
   <<"GET /propostas/minhas-propostas", "authCliente">>,
   <<"GET /propostas/:id", "authOptional">>}

\* a signature somebody without the secret makes over the claims of a client
Forged == {JwtSign(LoginPayload(c), OtherKey, OneHour, now) : c \in clientes}

\* a request for one of the routes rts arrives: no header, a token a caller
\* has kept, or a forged one
ReceiveDe(rts) ==
  /\ req.stage \in {"idle", "done"}
  /\ \E rt \in rts, id \in 1..(MaxPropostas + 1),
        h \in {NoHeader} \cup
              {Header(<<Word("Bearer"), SP, Tok(k)>>) : k \in issued \cup Forged} :
       /\ rt[1] # "GET /propostas/:id" => id = 1
       /\ req' = NewReq(rt[1], rt[2], 0, id, h)
  /\ UNCHANGED <<now, store, issued, resp, resourceOwnerId, ret, chamada,
                 procs>>

Receive == ReceiveDe(Routes)

\* a handler that answers 400 whatever it has done
RespondRecusado(r, s, e, body) ==
  [r EXCEPT !.stage = "done", !.handled = TRUE, !.sent = r.sent + 1,
            !.res = [status |-> 400, erro |-> e, body |-> body]]

\* res.status(s).json(...) of a route handler
Respond(r, s, e, body) ==
  [r EXCEPT !.stage = "done", !.handled = TRUE, !.sent = r.sent + 1,
            !.res = [status |-> s, erro |-> e, body |-> body]]

\* GET /propostas/:id
GetPropostaById ==
  /\ req.stage = "handler" /\ req.route = "GET /propostas/:id"
  /\ IF ~\E p \in propostas : p.id = req.id
       THEN req' = Respond(req, 404, "Proposta não encontrada", <<>>)
       ELSE LET proposta == CHOOSE p \in propostas : p.id = req.id
            IN IF ~canAccess(proposta.clienteId, req)
                 THEN req' = Respond(req, 403, "Acesso negado", <<>>)
                 ELSE req' = Respond(req, 200, "",
                        Some({Incluir(proposta, CamposCliente, CamposAdmin)}))
  /\ UNCHANGED <<now, store, issued, resp, resourceOwnerId, ret, chamada,
                 procs>>

\* GET /propostas, with the query left to its defaults
ListarPropostas ==
  /\ req.stage = "handler" /\ req.route = "GET /propostas"
  /\ req' = Respond(req, 200, "",
       Some({Incluir(p, CamposCliente, CamposAdmin) : p \in propostas}))
  /\ UNCHANGED <<now, store, issued, resp, resourceOwnerId, ret, chamada,
                 procs>>

\* GET /propostas/minhas-propostas; a where clause whose value is undefined
\* filters nothing
MinhasPropostas ==
  /\ req.stage = "handler" /\ req.route = "GET /propostas/minhas-propostas"
  /\ LET minhas == IF req.clienteLogadoId = Undefined THEN propostas
                   ELSE {p \in propostas :
                           Some(p.clienteId) = req.clienteLogadoId}
     IN req' = Respond(req, 200, "",
                 Some({Incluir(p, {}, CamposAdmin) : p \in minhas}))
  /\ UNCHANGED <<now, store, issued, resp, resourceOwnerId, ret, chamada,
                 procs>>

Init ==
  /\ now = 0
  /\ clientes = {} /\ produtos = ProdutosIniciais
  /\ categorias = CategoriasIniciais /\ propostas = {}
  /\ admins = {}
  /\ issued = {} /\ resp = NoRes /\ chamada = NoCall /\ procs = NoProcs
  /\ req = Idle
  /\ resourceOwnerId = "" /\ ret = NoRet

Next ==
  \/ Tick
  \/ Cadastro
  \/ Login
  \/ Discard
  \/ CriarProposta
  \/ Receive
  \/ AuthAdminStep
  \/ AuthClienteStep
  \/ AuthOptionalStep
  \/ GetPropostaById
  \/ ListarPropostas
  \/ MinhasPropostas

Spec == Init /\ [][Next]_vars

-----------------------------------------------------------------------------
(* The properties of Spec.  Only login.ts signs with the process secret     *)
(* here, so a token that verifies is a token client login has minted.       *)

\* C1: a request with 'Bearer <t>', t a validly signed and unexpired token
\* minted by client login, leaves authOptional with the client identifier of
\* t and no admin identity, so that getUserType is 'cliente'.
C1_OptionalClientIdentity ==
  (/\ req.mw = "authOptional" /\ Ran /\ BearerHeader
   /\ SignedByProcess(Presented) /\ ~ExpiryPast(Presented, now)
   /\ Presented.payload.clienteLogadoId # Undefined
   /\ ~HasAdminClaims(Presented))
  => /\ req.nexts = 1
     /\ req.clienteLogadoId = Presented.payload.clienteLogadoId
     /\ req.adminLogadoId = Undefined
     /\ getUserType(req) = "cliente"

\* the proposal GET /propostas/:id has looked up, while it is still stored
Addressed == CHOOSE p \in propostas : p.id = req.id

\* C2: GET /propostas/:id on an existing proposal answers 200 with the
\* proposal when the request carries a valid admin token or a valid token of
\* the client that owns it, and 403 'Acesso negado' when it carries no token,
\* an invalid token or the token of another client.
C2_GetByIdOwnerOrAdmin ==
  (/\ req.route = "GET /propostas/:id" /\ req.stage = "done" /\ req.handled
   /\ req.res.status # 404
   /\ \E p \in propostas : p.id = req.id)
  => /\ (/\ BearerHeader /\ SignedByProcess(Presented)
         /\ ~ExpiryPast(Presented, now)
         /\ \/ HasAdminClaims(Presented)
            \/ Presented.payload.clienteLogadoId = Some(Addressed.clienteId))
        => /\ req.res.status = 200
           /\ req.res.body =
                Some({Incluir(Addressed, CamposCliente, CamposAdmin)})
     /\ (\/ HeaderAbsent
         \/ BearerHeader /\ ~SignedByProcess(Presented)
         \/ /\ BearerHeader /\ SignedByProcess(Presented)
            /\ ~HasAdminClaims(Presented)
            /\ Presented.payload.clienteLogadoId # Some(Addressed.clienteId))
        => /\ req.res.status = 403
           /\ req.res.erro = "Acesso negado"

\* C6: whenever authAdmin hands a request on, the request holds a defined
\* admin identifier taken from an admin token, and whenever authCliente
\* does, a defined client identifier taken from a client token; so a client
\* token never reaches the handler of an admin-only route.
C6_PrincipalsNotConfused ==
  /\ (req.mw = "authAdmin" /\ req.nexts > 0)
       => /\ req.adminLogadoId # Undefined
          /\ HasAdminClaims(Presented)
  /\ (req.mw = "authCliente" /\ req.nexts > 0)
       => /\ req.clienteLogadoId # Undefined
          /\ Presented.payload.clienteLogadoId = req.clienteLogadoId
          /\ ~HasAdminClaims(Presented)

\* ---------------------------------------------------------------------
\* Level guard (specification SpecAuth)
\* ---------------------------------------------------------------------

InsufficientLevel == "Acesso negado. Nível de permissão insuficiente."

\* the presented token carries an admin level of at least n
LevelAtLeast(k, n) ==
  k.payload.adminLogadoNivel # Undefined /\ k.payload.adminLogadoNivel[1] >= n

\* C11: authAdminLevel(min) hands a request on only when its bearer token is
\* valid and carries an admin level >= min; a valid admin token whose level
\* is below min is answered 403, with no identity attached and no handler run.
C11_LevelGuard ==
  (req.mw = "authAdminLevel" /\ Ran)
  => /\ req.nexts > 0
          => /\ BearerHeader /\ SignedByProcess(Presented)
             /\ ~ExpiryPast(Presented, now)
             /\ LevelAtLeast(Presented, req.levelRequired)
     /\ (/\ BearerHeader /\ SignedByProcess(Presented)
         /\ ~ExpiryPast(Presented, now) /\ HasAdminClaims(Presented)
         /\ ~LevelAtLeast(Presented, req.levelRequired))
          => Refused(403, InsufficientLevel) /\ IdentityEmpty

-----------------------------------------------------------------------------
(* SpecSessao: clients register and log in while the clock runs, and the    *)
(* tokens login has minted are presented to a route behind authCliente.     *)

RoutesSessao == {<<"GET /propostas/minhas-propostas", "authCliente">>}

ReceiveSessao == ReceiveDe(RoutesSessao)

NextSessao ==
  \/ Tick
  \/ Cadastro
  \/ Login
  \/ Discard
  \/ ReceiveSessao
  \/ AuthClienteStep
  \/ MinhasPropostas

SpecSessao == Init /\ [][NextSessao]_vars

\* the last call was a login whose store lookup was answered
LoginAnswered ==
  /\ chamada.route = "POST /clientes/login" /\ ~chamada.falha
  /\ Truthy(chamada.body[1].email) /\ Truthy(chamada.body[1].senha)

\* ... with an email no client record has
UnknownEmail ==
  LoginAnswered /\ ~\E c \in clientes : c.email = chamada.body[1].email[1]

\* ... with the email of a client record and a password that is not its own
WrongPassword ==
  /\ LoginAnswered
  /\ \E c \in clientes :
       /\ c.email = chamada.body[1].email[1]
       /\ c.senha # Hash(chamada.body[1].senha[1])

\* C12: login answers an unknown email and a wrong password of a known email
\* alike: status 400, body {erro: 'Login ou senha incorretos'} and no token.
C12_LoginIndistinguishable ==
  (UnknownEmail \/ WrongPassword)
  => /\ resp.status = 400 /\ resp.erro = "Login ou senha incorretos"
     /\ resp.body = Undefined

\* a registered client has just been refused for a wrong password
C12_Witness ==
  /\ WrongPassword /\ resp.status = 400
  /\ chamada.body[1].email = Some("a@x.com")

\* a token client login has minted: in SpecSessao nothing else signs with
\* the process secret
MintedByLogin(k) ==
  /\ k.wellFormed /\ k.key = JWT_KEY
  /\ k.payload.iat # Undefined /\ k.payload.clienteLogadoId # Undefined

\* authCliente is about to resolve a request that presents a token of login
PresentsLoginToken ==
  /\ req.stage = "middleware" /\ req.mw = "authCliente"
  /\ BearerHeader /\ MintedByLogin(Presented)

\* C13: a token login minted at instant t is accepted by authCliente at every
\* instant before t + 1h, whatever the store has become and without the
\* store being read, and is answered 401 'Token expirado' at every instant
\* after t + 1h.
C13_OneHourLife ==
  [][(PresentsLoginToken /\ req'.stage # "middleware")
     => /\ now < Presented.payload.iat[1] + OneHour
             => /\ req'.stage = "handler" /\ req'.nexts = 1 /\ req'.sent = 0
                /\ req'.clienteLogadoId = Presented.payload.clienteLogadoId
        /\ now > Presented.payload.iat[1] + OneHour
             => /\ req'.stage = "done" /\ req'.nexts = 0 /\ req'.sent = 1
                /\ req'.res = [status |-> 401, erro |-> "Token expirado",
                               body |-> <<>>]
        /\ UNCHANGED store]_vars

\* one second after its hour, the token of a client is refused as expired,
\* a second client having registered since it was minted
C13_Witness ==
  /\ req.mw = "authCliente" /\ BearerHeader /\ MintedByLogin(Presented)
  /\ now = Presented.payload.iat[1] + OneHour + 1
  /\ Refused(401, "Token expirado")
  /\ Cardinality(clientes) = 2

\* C14: the claim set of a token client login mints holds, besides iat and
\* exp, the client's id and name and no other field of the client record.
C14_TokenClaims ==
  \A k \in issued :
    /\ k.payload.clienteLogadoId # Undefined
    /\ k.payload.clienteLogadoNome # Undefined
    /\ k.payload.clienteLogadoEmail = Undefined
    /\ k.payload.adminLogadoId = Undefined
    /\ k.payload.adminLogadoNome = Undefined
    /\ k.payload.adminLogadoNivel = Undefined

-----------------------------------------------------------------------------
(* Handlers that run step by step: every await of POST /clientes and of     *)
(* POST /admins/primeiro-admin is a step of its own, so that the requests   *)
(* of several callers interleave at the store.                              *)

\* requests in flight at the same time
NProcs == 2

Procs == 1..NProcs

\* the identifiers the store gives to admin records
AdminIds == {"a1", "a2"}

\* a slot no request has used yet
Parado ==
  [pc |-> "idle", route |-> "", body |-> Undefined,
   adminsExistentes |-> Undefined, falha |-> FALSE, res |-> NoRes]

\* no request is between two awaits
NoneActive == \A j \in Procs : procs[j].pc \in {"idle", "done", "rejected"}

\* the handler of slot i is suspended at an await
Handling(i) == procs[i].pc \in {"count", "findFirst", "create"}

\* the store still has an identifier for every request of the route that is
\* in flight, and for one more
IdsLivres(tabela, ids, route) ==
  Cardinality(tabela)
    + Cardinality({j \in Procs : procs[j].route = route /\ Handling(j)})
  < Cardinality(ids)

\* z.string().min(10) of the two schemas
MinNome == 10

\* senha.length < 8 of validaSenha
MinSenha == 8

\* z.number().min(1).max(5)
MinNivel == 1

MaxNivel == 5

\* the level primeiro-admin falls back to
SuperAdmin == 5

\* the length of a name
NomeLen(n) == IF n \in {"Ana", "Adm"} THEN 3 ELSE 16

\* z.string().email()
IsEmail(e) == e \in {"a@x.com", "b@x.com", "adm@x.com", "adm2@x.com"}

\* the characters of a password, by the class validaSenha puts each in
Chars(senha) ==
  IF senha = "Senha@123"
    THEN <<"A", "a", "a", "a", "a", "#", "0", "0", "0">>
  ELSE IF senha = "senha123"
    THEN <<"a", "a", "a", "a", "a", "0", "0", "0">>
  ELSE <<"a", "0">>

\* validaSenha: the messages of what the password lacks
validaSenha(senha) ==
  LET cs == Chars(senha)
      Conta(classe) == Cardinality({k \in 1..Len(cs) : cs[k] = classe})
      Se(cond, m) == IF cond THEN <<m>> ELSE <<>>
  IN Se(Len(cs) < MinSenha, "Senha deve possuir, no mínimo, 8 caracteres")
     \o Se(Conta("a") = 0, "Senha deve possuir letra(s) minúscula(s)")
     \o Se(Conta("A") = 0, "Senha deve possuir letra(s) maiúscula(s)")
     \o Se(Conta("0") = 0, "Senha deve possuir número(s)")
     \o Se(Conta("#") = 0, "Senha deve possuir símbolo(s)")

\* clienteSchema.safeParse(body).success
ClienteSchemaOk(body) ==
  /\ body.nome # Undefined /\ NomeLen(body.nome[1]) >= MinNome
  /\ body.email # Undefined /\ IsEmail(body.email[1])
  /\ body.senha # Undefined /\ body.cidade # Undefined

\* adminSchema.safeParse(body).success: nivel is a required number
AdminSchemaOk(body) ==
  /\ body.nome # Undefined /\ NomeLen(body.nome[1]) >= MinNome
  /\ body.email # Undefined /\ IsEmail(body.email[1])
  /\ body.senha # Undefined
  /\ body.nivel # Undefined
  /\ body.nivel[1] >= MinNivel /\ body.nivel[1] <= MaxNivel

\* the request of slot p is answered
Done(p, s, e) ==
  [p EXCEPT !.pc = "done", !.res = [status |-> s, erro |-> e, body |-> <<>>]]

DoneBody(p, s, b) ==
  [p EXCEPT !.pc = "done", !.res = [status |-> s, erro |-> "", body |-> Some(b)]]

ErroInternoDo == "Erro interno do servidor"

\* an await inside try is rejected: the catch answers 500
Caught(p) == Done([p EXCEPT !.falha = TRUE], 500, ErroInternoDo)

\* an await outside every try is rejected: the promise of the async handler
\* is rejected and the handler sends nothing.  Express 4 ignores the
\* promise, so the request is never answered; Express 5 hands the error to
\* its default error handler, which answers 500.  No package.json comes
\* with the sources, so the outcome is either.
Unhandled(p) ==
  {[p EXCEPT !.falha = TRUE, !.pc = "rejected"],
   Done([p EXCEPT !.falha = TRUE], 500, "Internal Server Error")}

\* safeParse and validaSenha at the head of both handlers
Validated(p, schemaOk) ==
  IF ~schemaOk THEN Done(p, 400, "valida.error.errors")
  ELSE IF Len(validaSenha(p.body[1].senha[1])) > 0
    THEN Done(p, 400, "erros.join")
  ELSE [p EXCEPT !.pc = "findFirst"]

ClienteBodies ==
  {CadastroBody(Some("Ana Maria Cliente"), Some("a@x.com"), Some("Senha@123"),
                Some("Pelotas")),
   CadastroBody(Some("Bia Souza Cliente"), Some("b@x.com"), Some("Senha@123"),
                Some("Pelotas")),
   CadastroBody(Some("Ana"), Some("a@x.com"), Some("Senha@123"), Some("Pelotas")),
   CadastroBody(Some("Ana Maria Cliente"), Some("a@x.com"), Some("senha123"),
                Some("Pelotas"))}

\* POST /clientes arrives: safeParse and validaSenha run before the first await
PostClientes ==
  /\ IdsLivres(clientes, ClienteIds, "POST /clientes")
  /\ \E i \in Procs, body \in ClienteBodies :
       /\ procs[i].pc \in {"idle", "done"}
       /\ procs' = [procs EXCEPT ![i] =
            Validated([Parado EXCEPT !.route = "POST /clientes",
                                     !.body = Some(body)],
                      ClienteSchemaOk(body))]
  /\ UNCHANGED <<now, store, issued, req, resp, resourceOwnerId, ret, chamada>>

\* await prisma.cliente.findFirst({where: {email}}) of POST /clientes, which
\* no try encloses
ClientesFindFirst ==
  /\ \E i \in Procs, falha \in BOOLEAN :
       /\ procs[i].pc = "findFirst" /\ procs[i].route = "POST /clientes"
       /\ IF falha
            THEN \E q \in Unhandled(procs[i]) : procs' = [procs EXCEPT ![i] = q]
            ELSE procs' = [procs EXCEPT ![i] =
                   IF EmailExiste(clientes, @.body[1].email[1])
                     THEN Done(@, 400, "E-mail já cadastrado")
                     ELSE [@ EXCEPT !.pc = "create"]]
  /\ UNCHANGED <<now, store, issued, req, resp, resourceOwnerId, ret, chamada>>

\* await prisma.cliente.create(...) of POST /clientes, inside try: the table
\* has no unique index on email, so the insert goes through
ClientesCreate ==
  /\ \E i \in Procs, id \in ClienteIds, falha \in BOOLEAN :
       /\ procs[i].pc = "create" /\ procs[i].route = "POST /clientes"
       /\ \A c \in clientes : c.id # id
       /\ LET b == procs[i].body[1]
              cliente == [id |-> id, nome |-> b.nome[1], email |-> b.email[1],
                          senha |-> Hash(b.senha[1]), cidade |-> b.cidade[1]]
          IN IF falha
               THEN /\ procs' = [procs EXCEPT ![i] = Caught(@)]
                    /\ UNCHANGED clientes
               ELSE /\ clientes' = clientes \cup {cliente}
                    /\ procs' = [procs EXCEPT ![i] =
                         DoneBody(@, 201, Select(cliente, CamposCliente))]
  /\ UNCHANGED <<now, produtos, categorias, propostas, admins, issued, req, resp,
                 resourceOwnerId, ret, chamada>>

AdminBody(nome, email, senha, nivel) ==
  [nome |-> nome, email |-> email, senha |-> senha, nivel |-> nivel]

AdminBodies ==
  {AdminBody(Some("Administrador Um"), Some("adm@x.com"), Some("Senha@123"),
             Undefined),
   AdminBody(Some("Administrador Um"), Some("adm@x.com"), Some("Senha@123"),
             Some(5)),
   AdminBody(Some("Administrador Dois"), Some("adm2@x.com"), Some("Senha@123"),
             Some(3)),
   AdminBody(Some("Adm"), Some("adm@x.com"), Some("senha123"), Some(5))}

\* POST /admins/primeiro-admin arrives: its first statement is an await
PostPrimeiroAdmin ==
  /\ IdsLivres(admins, AdminIds, "POST /admins/primeiro-admin")
  /\ \E i \in Procs, body \in AdminBodies :
       /\ procs[i].pc \in {"idle", "done"}
       /\ procs' = [procs EXCEPT ![i] =
            [Parado EXCEPT !.pc = "count",
                           !.route = "POST /admins/primeiro-admin",
                           !.body = Some(body)]]
  /\ UNCHANGED <<now, store, issued, req, resp, resourceOwnerId, ret, chamada>>

\* await prisma.admin.count(), which no try encloses, then the guard,
\* safeParse and validaSenha
PrimeiroAdminCount ==
  /\ \E i \in Procs, falha \in BOOLEAN :
       /\ procs[i].pc = "count"
       /\ LET adminsExistentes == Cardinality(admins)
              p == [procs[i] EXCEPT !.adminsExistentes = Some(adminsExistentes)]
          IN IF falha
               THEN \E q \in Unhandled(procs[i]) :
                      procs' = [procs EXCEPT ![i] = q]
               ELSE procs' = [procs EXCEPT ![i] =
                      IF adminsExistentes > 0
                        THEN Done(p, 400,
                               "Já existe um administrador cadastrado no sistema")
                        ELSE Validated(p, AdminSchemaOk(p.body[1]))]
  /\ UNCHANGED <<now, store, issued, req, resp, resourceOwnerId, ret, chamada>>

\* await prisma.admin.findFirst({where: {email}}) of primeiro-admin, which no
\* try encloses
PrimeiroAdminFindFirst ==
  /\ \E i \in Procs, falha \in BOOLEAN :
       /\ procs[i].pc = "findFirst"
       /\ procs[i].route = "POST /admins/primeiro-admin"
       /\ IF falha
            THEN \E q \in Unhandled(procs[i]) : procs' = [procs EXCEPT ![i] = q]
            ELSE procs' = [procs EXCEPT ![i] =
                   IF EmailExiste(admins, @.body[1].email[1])
                     THEN Done(@, 400, "E-mail já cadastrado")
                     ELSE [@ EXCEPT !.pc = "create"]]
  /\ UNCHANGED <<now, store, issued, req, resp, resourceOwnerId, ret, chamada>>

\* nivel || 5
NivelOu(nivel, padrao) ==
  IF nivel = Undefined \/ nivel[1] = 0 THEN padrao ELSE nivel[1]

\* await prisma.admin.create(...) of primeiro-admin, inside try
PrimeiroAdminCreate ==
  /\ \E i \in Procs, id \in AdminIds, falha \in BOOLEAN :
       /\ procs[i].pc = "create"
       /\ procs[i].route = "POST /admins/primeiro-admin"
       /\ \A a \in admins : a.id # id
       /\ LET b == procs[i].body[1]
              nivel == NivelOu(b.nivel, SuperAdmin)
              admin == [id |-> id, nome |-> b.nome[1], email |-> b.email[1],
                        senha |-> Hash(b.senha[1]), nivel |-> nivel]
          IN IF falha
               THEN /\ procs' = [procs EXCEPT ![i] = Caught(@)]
                    /\ UNCHANGED admins
               ELSE /\ admins' = admins \cup {admin}
                    /\ procs' = [procs EXCEPT ![i] =
                         DoneBody(@, 201,
                           Select(admin, {"id", "nome", "email", "nivel"}))]
  /\ UNCHANGED <<now, clientes, produtos, categorias, propostas, issued, req, resp,
                 resourceOwnerId, ret, chamada>>

-----------------------------------------------------------------------------
(* SpecCadastro and SpecBootstrap: client registrations, and bootstrap      *)
(* requests, handled one after another.  A request arrives only when no     *)
(* other is between two awaits.                                             *)

InitCadastro ==
  /\ now = 0
  /\ clientes = {} /\ produtos = ProdutosIniciais
  /\ categorias = CategoriasIniciais /\ propostas = {}
  /\ admins = {}
  /\ issued = {} /\ resp = NoRes /\ chamada = NoCall
  /\ procs = [i \in Procs |-> Parado]
  /\ req = Idle
  /\ resourceOwnerId = "" /\ ret = NoRet

CadastroSeq == NoneActive /\ Cadastro

PostClientesSeq == NoneActive /\ PostClientes

PostPrimeiroAdminSeq == NoneActive /\ PostPrimeiroAdmin

NextCadastro ==
  \/ CadastroSeq
  \/ PostClientesSeq
  \/ ClientesFindFirst
  \/ ClientesCreate

SpecCadastro == InitCadastro /\ [][NextCadastro]_vars

NextBootstrap ==
  \/ PostPrimeiroAdminSeq
  \/ PrimeiroAdminCount
  \/ PrimeiroAdminFindFirst
  \/ PrimeiroAdminCreate

SpecBootstrap == InitCadastro /\ [][NextBootstrap]_vars

-----------------------------------------------------------------------------
(* SpecCorrida: the same step-wise handlers with the requests of several    *)
(* callers in flight at once.                                               *)

NextCorrida ==
  \/ PostClientes
  \/ ClientesFindFirst
  \/ ClientesCreate
  \/ PostPrimeiroAdmin
  \/ PrimeiroAdminCount
  \/ PrimeiroAdminFindFirst
  \/ PrimeiroAdminCreate

SpecCorrida == InitCadastro /\ [][NextCorrida]_vars

\* an await of a handler is settled: one of its steps is taken
Settle ==
  \/ ClientesFindFirst
  \/ ClientesCreate
  \/ PrimeiroAdminCount
  \/ PrimeiroAdminFindFirst
  \/ PrimeiroAdminCreate

\* SpecVida: the store settles every promise in the end, by an answer or by
\* a rejection, so the handler of every slot goes on from every await
SpecVida ==
  /\ InitCadastro /\ [][NextCorrida]_vars
  /\ \A i \in Procs : WF_vars(Settle /\ procs'[i] # procs[i])

-----------------------------------------------------------------------------
(* The properties of the registration handlers *)

\* no two client records share an email
EmailsUnique == \A c, d \in clientes : c.email = d.email => c = d

\* POST /clientes/cadastro is answering a complete body whose email a stored
\* client has, the store answering its lookups
CadastroOfKnownEmail ==
  /\ Cadastro
  /\ ~chamada'.falha
  /\ \A f \in {"nome", "email", "senha", "cidade"} : Truthy(chamada'.body[1][f])
  /\ \E c \in clientes : c.email = chamada'.body[1].email[1]

\* the existence check of POST /clientes in slot i is answered for an email
\* a stored client has
FindFirstOfKnownEmail(i) ==
  /\ procs[i].pc = "findFirst" /\ procs[i].route = "POST /clientes"
  /\ procs'[i] # procs[i] /\ ~procs'[i].falha
  /\ \E c \in clientes : c.email = procs[i].body[1].email[1]

\* C15: with requests handled one after another, a registration (by
\* POST /clientes or POST /clientes/cadastro) whose email a stored client
\* has is answered 400 {erro: 'E-mail já cadastrado'} and creates no record,
\* and no two client records ever share an email.
C15_DuplicateEmailRefused ==
  /\ []EmailsUnique
  /\ [][/\ CadastroOfKnownEmail
             => /\ resp' = [status |-> 400, erro |-> "E-mail já cadastrado",
                            body |-> <<>>]
                /\ clientes' = clientes
        /\ \A i \in Procs :
             FindFirstOfKnownEmail(i)
             => /\ procs'[i].pc = "done"
                /\ procs'[i].res = [status |-> 400,
                                    erro |-> "E-mail já cadastrado",
                                    body |-> <<>>]
                /\ clientes' = clientes]_vars

\* POST /clientes has refused an email that POST /clientes/cadastro stored
\* before, and the table still holds that one record
C15_Witness ==
  /\ \E i \in Procs :
       /\ procs[i].pc = "done" /\ procs[i].route = "POST /clientes"
       /\ procs[i].res.erro = "E-mail já cadastrado"
       /\ procs[i].body[1].email = Some("a@x.com")
  /\ \E c \in clientes : c.email = "a@x.com" /\ c.nome = "Ana"
  /\ Cardinality(clientes) = 1

\* C16: when two POST /clientes with the same email are in flight together
\* and both pass the existence check before either creates its record, at
\* most one of them stores a record: the table never holds two records with
\* one email.
C16_OneRecordPerEmail ==
  /\ EmailsUnique
  /\ \A i, j \in Procs :
       (/\ i # j
        /\ procs[i].route = "POST /clientes" /\ procs[j].route = "POST /clientes"
        /\ procs[i].pc = "done" /\ procs[j].pc = "done"
        /\ procs[i].body[1].email = procs[j].body[1].email)
       => ~(procs[i].res.status = 201 /\ procs[j].res.status = 201)

JaExiste == "Já existe um administrador cadastrado no sistema"

\* slot i holds a bootstrap request
Bootstrap(i) == procs[i].route = "POST /admins/primeiro-admin"

\* a bootstrap body with a valid name, email and password and no level
ValidWithoutLevel(b) ==
  /\ b.nome # Undefined /\ NomeLen(b.nome[1]) >= MinNome
  /\ b.email # Undefined /\ IsEmail(b.email[1])
  /\ b.senha # Undefined /\ validaSenha(b.senha[1]) = <<>>
  /\ b.nivel = Undefined

\* C17: when no admin exists, POST /admins/primeiro-admin with a valid name,
\* email and password and no level is answered 201 and creates an admin of
\* level 5.
C17_BootstrapDefaultLevel ==
  \A i \in Procs :
    (/\ Bootstrap(i) /\ procs[i].pc = "done"
     /\ procs[i].adminsExistentes = Some(0)
     /\ ValidWithoutLevel(procs[i].body[1]))
    => /\ procs[i].res.status = 201
       /\ \E a \in admins :
            a.email = procs[i].body[1].email[1] /\ a.nivel = SuperAdmin

\* C18: over every interleaving of bootstrap requests at most one admin
\* record is created through the bootstrap endpoint, and a bootstrap request
\* that finds an admin is answered 400 'Já existe um administrador
\* cadastrado no sistema' and creates nothing.
C18_BootstrapOnce ==
  /\ Cardinality(admins) <= 1
  /\ \A i \in Procs :
       (/\ Bootstrap(i) /\ procs[i].adminsExistentes # Undefined
        /\ procs[i].adminsExistentes[1] > 0)
       => /\ procs[i].pc = "done"
          /\ procs[i].res = [status |-> 400, erro |-> JaExiste, body |-> <<>>]

-----------------------------------------------------------------------------
(* SpecAdmins: the first admin exists; clients register and log in, and     *)
(* requests go through authAdmin (router.use) to POST /admins.              *)

\* the record primeiro-admin has created
PrimeiroAdmin ==
  [id |-> "a1", nome |-> "Administrador Um", email |-> "adm@x.com",
   senha |-> Hash("Senha@123"), nivel |-> SuperAdmin]

InitAdmins ==
  /\ now = 0
  /\ clientes = {} /\ produtos = ProdutosIniciais
  /\ categorias = CategoriasIniciais /\ propostas = {}
  /\ admins = {PrimeiroAdmin}
  /\ issued = {} /\ resp = NoRes /\ chamada = NoCall /\ procs = NoProcs
  /\ req = Idle
  /\ resourceOwnerId = "" /\ ret = NoRet

\* a POST /admins arrives: no header, a token a caller has kept, or a forged one
ReceiveAdmins ==
  /\ req.stage \in {"idle", "done"}
  /\ \E body \in AdminBodies,
        h \in {NoHeader} \cup
              {Header(<<Word("Bearer"), SP, Tok(k)>>) : k \in issued \cup Forged} :
       req' = [NewReq("POST /admins", "authAdmin", 0, 0, h) EXCEPT
                 !.body = Some(body)]
  /\ UNCHANGED <<now, store, issued, resp, resourceOwnerId, ret, chamada,
                 procs>>

\* POST /admins
CriarAdmin ==
  /\ req.stage = "handler" /\ req.route = "POST /admins"
  /\ LET b == req.body[1]
     IN IF ~AdminSchemaOk(b)
          THEN req' = Respond(req, 400, "valida.error.errors", <<>>)
               /\ UNCHANGED admins
        ELSE IF Len(validaSenha(b.senha[1])) > 0
          THEN req' = Respond(req, 400, "erros.join", <<>>)
               /\ UNCHANGED admins
        ELSE IF EmailExiste(admins, b.email[1])
          THEN req' = Respond(req, 400, "E-mail já cadastrado", <<>>)
               /\ UNCHANGED admins
        ELSE \E id \in AdminIds :
               LET admin == [id |-> id, nome |-> b.nome[1],
                             email |-> b.email[1],
                             senha |-> Hash(b.senha[1]), nivel |-> b.nivel[1]]
               IN /\ \A a \in admins : a.id # id
                  /\ admins' = admins \cup {admin}
                  /\ req' = Respond(req, 201, "",
                       Some(Select(admin, {"id", "nome", "email", "nivel"})))
  /\ UNCHANGED <<now, clientes, produtos, categorias, propostas, issued, resp,
                 resourceOwnerId, ret, chamada, procs>>

NextAdmins ==
  \/ Cadastro
  \/ Login
  \/ ReceiveAdmins
  \/ AuthAdminStep
  \/ CriarAdmin

SpecAdmins == InitAdmins /\ [][NextAdmins]_vars

\* C19: once an admin exists, POST /admins creates a record only for a
\* request whose bearer token is a valid admin token; with no token, an
\* invalid token or a token of client login no admin is created.
C19_AdminsCreatedByAdmins ==
  (/\ req.route = "POST /admins" /\ req.handled /\ req.res.status = 201)
  => /\ BearerHeader /\ SignedByProcess(Presented)
     /\ ~ExpiryPast(Presented, now)
     /\ HasAdminClaims(Presented)

-----------------------------------------------------------------------------
(* SpecFalha: routes without middleware whose store operations may be       *)
(* rejected: registration, login, the product list and the dashboard.       *)

\* the error object a rejected store operation throws
StoreError == "PrismaClientKnownRequestError"

\* a GET of a route without middleware
CallGet(route, falha) == [NoCall EXCEPT !.route = route, !.falha = falha]

\* GET /produtos: the catch answers {erro: error}
ListarProdutos ==
  /\ \E falha \in BOOLEAN :
       /\ chamada' = CallGet("GET /produtos", falha)
       /\ resp' = IF falha THEN Answer(500, StoreError)
                  ELSE AnswerBody(200, produtos)
  /\ UNCHANGED <<now, store, issued, req, resourceOwnerId, ret, procs>>

\* prisma.cliente.groupBy({by: ['cidade'], _count}) mapped to {cidade, num}
ClientesPorCidade ==
  {[cidade |-> cd, num |-> Cardinality({c \in clientes : c.cidade = cd})] :
     cd \in {c.cidade : c \in clientes}}

\* GET /dashboard/clientesCidade: the catch answers the error itself
ClientesCidade ==
  /\ \E falha \in BOOLEAN :
       /\ chamada' = CallGet("GET /dashboard/clientesCidade", falha)
       /\ resp' = IF falha THEN AnswerBody(400, StoreError)
                  ELSE AnswerBody(200, ClientesPorCidade)
  /\ UNCHANGED <<now, store, issued, req, resourceOwnerId, ret, procs>>

NextFalha ==
  \/ Cadastro
  \/ Login
  \/ ListarProdutos
  \/ ClientesCidade

SpecFalha == Init /\ [][NextFalha]_vars

\* C20: when a store operation of a route handler is rejected, the body of
\* the response holds a fixed generic message only, never the error object
\* of the store.
C20_GenericStoreFailure ==
  chamada.falha
  => /\ resp.erro \in {"Erro interno no servidor", "Erro interno do servidor"}
     /\ resp.body = Undefined

-----------------------------------------------------------------------------
(* SpecPropostas: the proposal routes behind their middleware, in a store   *)
(* that holds two clients, the first of them logged in, and the first      *)
(* admin.  Callers present the token client login has given, the token of   *)
(* an admin, a forged one or none.                                          *)

\* the claim set of an admin token (AdminTokenType)
AdminPayload(admin) ==
  [NoPayload EXCEPT !.adminLogadoId = Some(admin.id),
                    !.adminLogadoNome = Some(admin.nome),
                    !.adminLogadoNivel = Some(admin.nivel)]

\* the tokens the admin login mounted at /admins/login gives the admins
AdminTokens == {JwtSign(AdminPayload(a), JWT_KEY, OneHour, now) : a \in admins}

ClientesIniciais ==
  {[id |-> "c1", nome |-> "Ana", email |-> "a@x.com", senha |-> Hash("s1"),
    cidade |-> "Pelotas"],
   [id |-> "c2", nome |-> "Bia", email |-> "b@x.com", senha |-> Hash("s1"),
    cidade |-> "Pelotas"]}

InitPropostas ==
  /\ now = 0
  /\ clientes = ClientesIniciais /\ produtos = ProdutosIniciais
  /\ categorias = CategoriasIniciais /\ propostas = {}
  /\ admins = {PrimeiroAdmin}
  /\ issued = {JwtSign(LoginPayload(c), JWT_KEY, OneHour, now) :
                 c \in {d \in ClientesIniciais : d.id = "c1"}}
  /\ resp = NoRes /\ chamada = NoCall /\ procs = NoProcs
  /\ req = Idle
  /\ resourceOwnerId = "" /\ ret = NoRet

\* resposta.trim()
Trim(resposta) == IF resposta = " Aceito a oferta " THEN "Aceito a oferta"
                  ELSE IF resposta = "   " THEN "" ELSE resposta

\* the length of an answer
RespLen(resposta) == IF resposta = "" THEN 0
                     ELSE IF resposta = "ok" THEN 2 ELSE 15

\* the bodies sent to the routes that read one; a field left out is undefined
BodiesDe(route) ==
  IF route = "PUT /propostas/:id/responder"
    THEN {[resposta |-> r] :
            r \in {Undefined, Some("   "), Some("ok"), Some(" Aceito a oferta ")}}
  ELSE IF route = "PUT /propostas/:id"
    THEN {[clienteId |-> Undefined, produtoId |-> Undefined,
           descricao |-> Some("quero vinte sacas")],
          [clienteId |-> Some("c2"), produtoId |-> Some(1),
           descricao |-> Undefined],
          [clienteId |-> Undefined, produtoId |-> Some(2),
           descricao |-> Undefined],
          [clienteId |-> Undefined, produtoId |-> Undefined,
           descricao |-> Some("curta")]}
  ELSE {Undefined}

RoutesPropostas ==
  Routes \cup
  {<<"DELETE /propostas/:id", "authOptional">>,
   <<"PUT /propostas/:id", "authAdmin">>,
   <<"PUT /propostas/:id/responder", "authAdmin">>,
   <<"GET /propostas/produto/:produtoId", "authOptional">>}

\* a request for one of the routes rts arrives, with the body its route
\* reads and the token of a client, of the admin, a forged one or none
ReceiveRotas(rts) ==
  /\ req.stage \in {"idle", "done"}
  /\ \E rt \in rts, id \in 1..(MaxPropostas + 1),
        h \in {NoHeader} \cup
              {Header(<<Word("Bearer"), SP, Tok(k)>>) :
                 k \in issued \cup AdminTokens \cup Forged} :
       \E body \in BodiesDe(rt[1]) :
         /\ rt[1] \in {"GET /propostas", "GET /propostas/minhas-propostas"}
              => id = 1
         /\ req' = [NewReq(rt[1], rt[2], 0, id, h) EXCEPT
                      !.body = IF body = Undefined THEN Undefined
                               ELSE Some(body)]
  /\ UNCHANGED <<now, store, issued, resp, resourceOwnerId, ret, chamada,
                 procs>>

\* DELETE /propostas/:id
ExcluirProposta ==
  /\ req.stage = "handler" /\ req.route = "DELETE /propostas/:id"
  /\ IF ~\E p \in propostas : p.id = req.id
       THEN /\ req' = Respond(req, 404, "Proposta não encontrada", <<>>)
            /\ UNCHANGED propostas
       ELSE LET proposta == CHOOSE p \in propostas : p.id = req.id
                canDelete == canAccess(proposta.clienteId, req)
            IN IF ~canDelete
                 THEN /\ req' = Respond(req, 403, "Acesso negado", <<>>)
                      /\ UNCHANGED propostas
                 ELSE /\ propostas' = {p \in propostas : p.id # req.id}
                      /\ req' = Respond(req, 200, "", <<>>)
  /\ UNCHANGED <<now, clientes, produtos, categorias, admins, issued, resp,
                 resourceOwnerId, ret, chamada, procs>>

\* PUT /propostas/:id/responder
ResponderProposta ==
  /\ req.stage = "handler" /\ req.route = "PUT /propostas/:id/responder"
  /\ LET resposta == req.body[1].resposta
     IN IF Falsy(resposta) \/ RespLen(Trim(resposta[1])) = 0
          THEN /\ req' = Respond(req, 400, "Resposta é obrigatória", <<>>)
               /\ UNCHANGED propostas
        ELSE IF RespLen(Trim(resposta[1])) < MinResposta
          THEN /\ req' = Respond(req, 400,
                      "Resposta deve possuir, no mínimo, 5 caracteres", <<>>)
               /\ UNCHANGED propostas
        ELSE IF ~\E p \in propostas : p.id = req.id
          THEN /\ req' = Respond(req, 404, "Proposta não encontrada", <<>>)
               /\ UNCHANGED propostas
        ELSE IF /\ req.adminLogadoId # Undefined
                /\ ~\E a \in admins : Some(a.id) = req.adminLogadoId
          THEN /\ req' = Respond(req, 500, ErroInternoDo, <<>>)
               /\ UNCHANGED propostas
        ELSE LET existente == CHOOSE p \in propostas : p.id = req.id
                 proposta ==
                   [existente EXCEPT
                      !.resposta = Some(Trim(resposta[1])),
                      !.adminId = IF req.adminLogadoId = Undefined THEN @
                                  ELSE req.adminLogadoId]
             IN /\ propostas' = (propostas \ {existente}) \cup {proposta}
                /\ req' = Respond(req, 200, "",
                     Some({Incluir(proposta, CamposCliente, CamposAdmin)}))
  /\ UNCHANGED <<now, clientes, produtos, categorias, admins, issued, resp,
                 resourceOwnerId, ret, chamada, procs>>

\* PUT /propostas/:id: propostaSchema.partial(), then the fields that are
\* truthy are written
AtualizarProposta ==
  /\ req.stage = "handler" /\ req.route = "PUT /propostas/:id"
  /\ LET b == req.body[1]
     IN IF \/ b.clienteId # Undefined /\ ~IsUuid(b.clienteId[1])
           \/ b.produtoId # Undefined /\ b.produtoId[1] < 1
           \/ b.descricao # Undefined
                /\ DescLen(b.descricao[1]) < MinDescricao
          THEN /\ req' = Respond(req, 400, "valida.error.errors", <<>>)
               /\ UNCHANGED propostas
        ELSE IF ~\E p \in propostas : p.id = req.id
          THEN /\ req' = Respond(req, 404, "Proposta não encontrada", <<>>)
               /\ UNCHANGED propostas
        ELSE IF /\ Truthy(b.clienteId)
                /\ ~\E c \in clientes : c.id = b.clienteId[1]
          THEN /\ req' = Respond(req, 400, "Cliente não encontrado", <<>>)
               /\ UNCHANGED propostas
        ELSE IF /\ b.produtoId # Undefined /\ b.produtoId[1] # 0
                /\ ~\E p \in produtos : p.id = b.produtoId[1]
          THEN /\ req' = Respond(req, 400, "Produto não encontrado", <<>>)
               /\ UNCHANGED propostas
        ELSE LET existente == CHOOSE p \in propostas : p.id = req.id
                 proposta ==
                   [existente EXCEPT
                      !.clienteId = IF Truthy(b.clienteId)
                                      THEN b.clienteId[1] ELSE @,
                      !.produtoId = IF b.produtoId # Undefined
                                       /\ b.produtoId[1] # 0
                                      THEN b.produtoId[1] ELSE @,
                      !.descricao = IF Truthy(b.descricao)
                                      THEN b.descricao[1] ELSE @]
             IN /\ propostas' = (propostas \ {existente}) \cup {proposta}
                /\ req' = Respond(req, 200, "",
                     Some({Incluir(proposta, CamposCliente, CamposAdmin)}))
  /\ UNCHANGED <<now, clientes, produtos, categorias, admins, issued, resp,
                 resourceOwnerId, ret, chamada, procs>>

\* GET /propostas/produto/:produtoId
PropostasPorProduto ==
  /\ req.stage = "handler"
  /\ req.route = "GET /propostas/produto/:produtoId"
  /\ LET userType == getUserType(req)
         doProduto == {p \in propostas : p.produtoId = req.id}
         visiveis == IF userType = "cliente"
                       THEN {p \in doProduto :
                               Some(p.clienteId) = req.clienteLogadoId}
                       ELSE doProduto
     IN IF ~\E p \in produtos : p.id = req.id
          THEN req' = Respond(req, 404, "Produto não encontrado", <<>>)
        ELSE IF userType = "null"
          THEN req' = Respond(req, 401, "Acesso não autorizado", <<>>)
        ELSE req' = Respond(req, 200, "",
               Some({Incluir(p, {"id", "nome", "cidade"}, {"id", "nome"}) :
                       p \in visiveis}))
  /\ UNCHANGED <<now, store, issued, resp, resourceOwnerId, ret, chamada,
                 procs>>

NextPropostas ==
  \/ CriarProposta
  \/ ReceiveAdmins
  \/ CriarAdmin
  \/ ReceiveRotas(RoutesPropostas)
  \/ AuthAdminStep
  \/ AuthClienteStep
  \/ AuthOptionalStep
  \/ GetPropostaById
  \/ ListarPropostas
  \/ MinhasPropostas
  \/ ExcluirProposta
  \/ ResponderProposta
  \/ AtualizarProposta
  \/ PropostasPorProduto

SpecPropostas == InitPropostas /\ [][NextPropostas]_vars

-----------------------------------------------------------------------------
(* SpecCatalogo: the routers of /produtos and /categorias, which index.ts   *)
(* mounts with no middleware in front.  The store and the tokens are those  *)
(* of SpecPropostas; a request carries the token of a client, of the admin, *)
(* a forged one or none, and the handlers never read it.                    *)

\* the products and the categories the model lets the store hold
MaxCatalogo == 2

\* nome: z.string().min(2) of produtoSchema
MinNomeProduto == 2

\* nome: z.string().min(3) of categoriaSchema
MinNomeCategoria == 3

\* the length of the name of a product or of a category
CatLen(n) == IF n = "M" THEN 1 ELSE IF n = "Uv" THEN 2 ELSE 5

\* the key the database gives a new row
NovoId(usados) ==
  CHOOSE n \in 1..(MaxCatalogo + 1) :
    n \notin usados /\ \A m \in 1..(n - 1) : m \in usados

HeadersCatalogo ==
  {NoHeader} \cup
  {Header(<<Word("Bearer"), SP, Tok(k)>>) :
     k \in issued \cup AdminTokens \cup Forged}

\* express hands the request straight to the handler of its route
Entrega(route, id, h, body) ==
  [NewReq(route, "", 0, id, h) EXCEPT !.stage = "handler", !.body = Some(body)]

\* the fields of a product body the handlers depend on
ProdutoBodies ==
  {[nome |-> n, categoriaId |-> c] :
     n \in {Undefined, Some("Milho"), Some("M")},
     c \in {Undefined, Some(1), Some(2)}}

CategoriaBodies == {[nome |-> n] : n \in {Undefined, Some("Frutas"), Some("Uv")}}

\* produtoSchema.safeParse(req.body).success
ProdutoSchemaOk(b) ==
  /\ b.nome # Undefined /\ CatLen(b.nome[1]) >= MinNomeProduto
  /\ b.categoriaId # Undefined

\* produtoSchema.partial().safeParse(req.body).success
ProdutoUpdateSchemaOk(b) ==
  b.nome # Undefined => CatLen(b.nome[1]) >= MinNomeProduto

\* categoriaSchema.safeParse(req.body).success
CategoriaSchemaOk(b) ==
  b.nome # Undefined /\ CatLen(b.nome[1]) >= MinNomeCategoria

\* the foreign key Produtos.categoriaId
CategoriaExiste(id) == \E c \in categorias : c.id = id

\* POST /produtos
ProdutosCreate ==
  /\ Cardinality(produtos) < MaxCatalogo
  /\ \E h \in HeadersCatalogo, b \in ProdutoBodies :
       LET r == Entrega("POST /produtos", 0, h, b)
       IN IF ~ProdutoSchemaOk(b)
            THEN /\ req' = Respond(r, 400, "valida.error", <<>>)
                 /\ UNCHANGED produtos
          ELSE IF ~CategoriaExiste(b.categoriaId[1])
            THEN /\ req' = Respond(r, 400, StoreError, <<>>)
                 /\ UNCHANGED produtos
          ELSE LET produto == [id |-> NovoId({p.id : p \in produtos}),
                               nome |-> b.nome[1],
                               categoriaId |-> b.categoriaId[1]]
               IN /\ produtos' = produtos \cup {produto}
                  /\ req' = Respond(r, 201, "", Some({produto}))
  /\ UNCHANGED <<now, clientes, categorias, propostas, admins, issued, resp,
                 resourceOwnerId, ret, chamada, procs>>

\* DELETE /produtos/:id
ProdutosDelete ==
  /\ \E h \in HeadersCatalogo, id \in 1..MaxCatalogo :
       LET r == Entrega("DELETE /produtos/:id", id, h, Undefined)
       IN IF \/ ~\E p \in produtos : p.id = id
             \/ \E q \in propostas : q.produtoId = id
            THEN /\ req' = Respond(r, 400, StoreError, <<>>)
                 /\ UNCHANGED produtos
          ELSE LET produto == CHOOSE p \in produtos : p.id = id
               IN /\ produtos' = produtos \ {produto}
                  /\ req' = Respond(r, 200, "", Some({produto}))
  /\ UNCHANGED <<now, clientes, categorias, propostas, admins, issued, resp,
                 resourceOwnerId, ret, chamada, procs>>

\* prisma.produtos.update({where: {id}, data}) on the fields the body gives
ProdutoAtualizado(produto, b) ==
  [produto EXCEPT
     !.nome = IF b.nome = Undefined THEN @ ELSE b.nome[1],
     !.categoriaId = IF b.categoriaId = Undefined THEN @ ELSE b.categoriaId[1]]

\* what PUT and PATCH /produtos/:id do once the body has been parsed
ProdutosUpdateData(r, b) ==
  IF \/ ~\E p \in produtos : p.id = r.id
     \/ b.categoriaId # Undefined /\ ~CategoriaExiste(b.categoriaId[1])
    THEN /\ req' = Respond(r, 400, StoreError, <<>>)
         /\ UNCHANGED produtos
  ELSE LET antigo == CHOOSE p \in produtos : p.id = r.id
           produto == ProdutoAtualizado(antigo, b)
       IN /\ produtos' = (produtos \ {antigo}) \cup {produto}
          /\ req' = Respond(r, 200, "", Some({produto}))

\* PUT /produtos/:id
ProdutosUpdate ==
  /\ \E h \in HeadersCatalogo, id \in 1..MaxCatalogo, b \in ProdutoBodies :
       LET r == Entrega("PUT /produtos/:id", id, h, b)
       IN IF ~ProdutoSchemaOk(b)
            THEN /\ req' = Respond(r, 400, "valida.error", <<>>)
                 /\ UNCHANGED produtos
          ELSE ProdutosUpdateData(r, b)
  /\ UNCHANGED <<now, clientes, categorias, propostas, admins, issued, resp,
                 resourceOwnerId, ret, chamada, procs>>

\* PATCH /produtos/:id
ProdutosPatch ==
  /\ \E h \in HeadersCatalogo, id \in 1..MaxCatalogo, b \in ProdutoBodies :
       LET r == Entrega("PATCH /produtos/:id", id, h, b)
       IN IF ~ProdutoUpdateSchemaOk(b)
            THEN /\ req' = Respond(r, 400, "valida.error", <<>>)
                 /\ UNCHANGED produtos
          ELSE ProdutosUpdateData(r, b)
  /\ UNCHANGED <<now, clientes, categorias, propostas, admins, issued, resp,
                 resourceOwnerId, ret, chamada, procs>>

\* POST /categorias
CategoriasCreate ==
  /\ Cardinality(categorias) < MaxCatalogo
  /\ \E h \in HeadersCatalogo, b \in CategoriaBodies :
       LET r == Entrega("POST /categorias", 0, h, b)
       IN IF ~CategoriaSchemaOk(b)
            THEN /\ req' = Respond(r, 400, "valida.error", <<>>)
                 /\ UNCHANGED categorias
          ELSE LET categoria == [id |-> NovoId({c.id : c \in categorias}),
                                 nome |-> b.nome[1]]
               IN /\ categorias' = categorias \cup {categoria}
                  /\ req' = Respond(r, 201, "", Some({categoria}))
  /\ UNCHANGED <<now, clientes, produtos, propostas, admins, issued, resp,
                 resourceOwnerId, ret, chamada, procs>>

\* DELETE /categorias/:id
CategoriasDelete ==
  /\ \E h \in HeadersCatalogo, id \in 1..MaxCatalogo :
       LET r == Entrega("DELETE /categorias/:id", id, h, Undefined)
       IN IF \/ ~CategoriaExiste(id)
             \/ \E p \in produtos : p.categoriaId = id
            THEN /\ req' = Respond(r, 400, StoreError, <<>>)
                 /\ UNCHANGED categorias
          ELSE LET categoria == CHOOSE c \in categorias : c.id = id
               IN /\ categorias' = categorias \ {categoria}
                  /\ req' = Respond(r, 200, "", Some({categoria}))
  /\ UNCHANGED <<now, clientes, produtos, propostas, admins, issued, resp,
                 resourceOwnerId, ret, chamada, procs>>

\* PUT /categorias/:id
CategoriasUpdate ==
  /\ \E h \in HeadersCatalogo, id \in 1..MaxCatalogo, b \in CategoriaBodies :
       LET r == Entrega("PUT /categorias/:id", id, h, b)
       IN IF ~CategoriaSchemaOk(b)
            THEN /\ req' = Respond(r, 400, "valida.error", <<>>)
                 /\ UNCHANGED categorias
          ELSE IF ~CategoriaExiste(id)
            THEN /\ req' = Respond(r, 400, StoreError, <<>>)
                 /\ UNCHANGED categorias
          ELSE LET antiga == CHOOSE c \in categorias : c.id = id
                   categoria == [antiga EXCEPT !.nome = b.nome[1]]
               IN /\ categorias' = (categorias \ {antiga}) \cup {categoria}
                  /\ req' = Respond(r, 200, "", Some({categoria}))
  /\ UNCHANGED <<now, clientes, produtos, propostas, admins, issued, resp,
                 resourceOwnerId, ret, chamada, procs>>

NextCatalogo ==
  \/ ProdutosCreate
  \/ ProdutosDelete
  \/ ProdutosUpdate
  \/ ProdutosPatch
  \/ CategoriasCreate
  \/ CategoriasDelete
  \/ CategoriasUpdate

SpecCatalogo == InitPropostas /\ [][NextCatalogo]_vars

\* the request carries 'Bearer <t>' with t signed by the process and not
\* expired
TokenValido ==
  /\ BearerHeader
  /\ SignedByProcess(Presented) /\ ~ExpiryPast(Presented, now)

\* C23: no product or category record is created, updated or deleted by a
\* request that carries no valid bearer token: every step that changes the
\* products or the categories is the step of a request with a valid token.
C23_CatalogueBehindToken ==
  [][(produtos' # produtos \/ categorias' # categorias) => TokenValido']_vars

-----------------------------------------------------------------------------
(* SpecPatch: a client edits its proposal while an admin answers it.  The   *)
(* handler of PATCH /propostas/:id runs one await at a time; the store      *)
(* holds a proposal of the first client, who has logged in.                 *)

PropostaInicial ==
  [id |-> 1, clienteId |-> "c1", produtoId |-> 1,
   descricao |-> "quero dez sacas", resposta |-> Undefined,
   adminId |-> Undefined]

InitPatch ==
  /\ now = 0
  /\ clientes = ClientesIniciais /\ produtos = ProdutosIniciais
  /\ categorias = CategoriasIniciais /\ propostas = {PropostaInicial}
  /\ admins = {PrimeiroAdmin}
  /\ issued = {JwtSign(LoginPayload(c), JWT_KEY, OneHour, now) :
                 c \in {d \in ClientesIniciais : d.id = "c1"}}
  /\ resp = NoRes /\ chamada = NoCall
  /\ procs = [i \in Procs |-> Parado]
  /\ req = Idle
  /\ resourceOwnerId = "" /\ ret = NoRet

\* PATCH /propostas/:id arrives when no other is being handled, and takes
\* the first slot: authCliente and safeParse run before the first await
PatchProposta ==
  /\ \E i \in Procs, id \in 1..MaxPropostas,
        k \in issued \cup AdminTokens \cup Forged,
        descricao \in {"curta", "quero vinte sacas"} :
       LET r == authCliente(
                  NewReq("PATCH /propostas/:id", "authCliente", 0, id,
                         Header(<<Word("Bearer"), SP, Tok(k)>>)), now)
           p == [Parado EXCEPT
                   !.route = "PATCH /propostas/:id",
                   !.body = Some([id |-> id, descricao |-> descricao,
                                  clienteLogadoId |-> r.clienteLogadoId])]
       IN /\ NoneActive /\ \A j \in Procs : i <= j
          /\ procs' = [procs EXCEPT ![i] =
               IF r.nexts = 0 THEN [p EXCEPT !.pc = "done", !.res = r.res]
               ELSE IF DescLen(descricao) < MinDescricao
                 THEN Done(p, 400, "valida.error.errors")
               ELSE [p EXCEPT !.pc = "findFirst"]]
  /\ UNCHANGED <<now, store, issued, req, resp, resourceOwnerId, ret, chamada>>

\* await prisma.proposta.findFirst({where: {id, clienteId}}) of PATCH, and
\* the test of the answer; a where value that is undefined filters nothing
PatchFindFirst ==
  /\ \E i \in Procs, falha \in BOOLEAN :
       /\ procs[i].pc = "findFirst"
       /\ procs[i].route = "PATCH /propostas/:id"
       /\ LET b == procs[i].body[1]
              achadas == {p \in propostas :
                            /\ p.id = b.id
                            /\ \/ b.clienteLogadoId = Undefined
                               \/ Some(p.clienteId) = b.clienteLogadoId}
          IN procs' = [procs EXCEPT ![i] =
               IF falha THEN Caught(@)
               ELSE IF achadas = {}
                 THEN Done(@, 404, "Proposta não encontrada ou acesso negado")
               ELSE IF Truthy((CHOOSE p \in achadas : TRUE).resposta)
                 THEN Done(@, 400,
                           "Não é possível editar proposta já respondida")
               ELSE [@ EXCEPT !.pc = "update"]]
  /\ UNCHANGED <<now, store, issued, req, resp, resourceOwnerId, ret, chamada>>

\* await prisma.proposta.update({where: {id}, data: {descricao}}) of PATCH
PatchUpdate ==
  /\ \E i \in Procs, falha \in BOOLEAN :
       /\ procs[i].pc = "update"
       /\ LET b == procs[i].body[1]
          IN IF falha \/ ~\E p \in propostas : p.id = b.id
               THEN /\ procs' = [procs EXCEPT ![i] = Caught(@)]
                    /\ UNCHANGED propostas
               ELSE LET existente == CHOOSE p \in propostas : p.id = b.id
                        proposta == [existente EXCEPT
                                       !.descricao = b.descricao]
                    IN /\ propostas' = (propostas \ {existente})
                                         \cup {proposta}
                       /\ procs' = [procs EXCEPT ![i] =
                            DoneBody(@, 200,
                              {Incluir(proposta, CamposCliente, CamposAdmin)})]
  /\ UNCHANGED <<now, clientes, produtos, categorias, admins, issued, req,
                 resp, resourceOwnerId, ret, chamada>>

NextPatch ==
  \/ PatchProposta
  \/ PatchFindFirst
  \/ PatchUpdate
  \/ ReceiveRotas({<<"PUT /propostas/:id/responder", "authAdmin">>})
  \/ AuthAdminStep
  \/ ResponderProposta

SpecPatch == InitPatch /\ [][NextPatch]_vars

-----------------------------------------------------------------------------
(* SpecServidor: the server in one of five situations.  With no handler    *)
(* running step by step: the proposal routes behind their middleware in a   *)
(* store that has an admin, or clients registering and logging in while the *)
(* clock runs in a store that has none.  With handlers that run one await   *)
(* at a time: bootstrap requests on a fresh installation, whose catalogue   *)
(* is empty; registrations in a store without proposals; a client editing   *)
(* its proposal while an admin answers it.                                  *)

InitServidor ==
  \/ InitPropostas
  \/ Init
  \/ InitCadastro
  \/ InitPatch
  \/ /\ now = 0
     /\ clientes = {} /\ produtos = {} /\ categorias = {} /\ propostas = {}
     /\ admins = {}
     /\ issued = {} /\ resp = NoRes /\ chamada = NoCall
     /\ procs = [i \in Procs |-> Parado]
     /\ req = Idle
     /\ resourceOwnerId = "" /\ ret = NoRet

NextServidor ==
  \/ procs = NoProcs /\ admins # {} /\ NextPropostas
  \/ procs = NoProcs /\ admins = {} /\ NextSessao
  \/ procs # NoProcs /\ produtos = {} /\ NextBootstrap
  \/ procs # NoProcs /\ produtos # {} /\ propostas = {} /\ NextCadastro
  \/ procs # NoProcs /\ propostas # {} /\ NextPatch

SpecServidor == InitServidor /\ [][NextServidor]_vars

\* a record a response holds has no field senha
SemSenha(r) == "senha" \notin DOMAIN r

\* a proposal as a response holds it has no field senha, and neither has the
\* client or the admin embedded in it
PropostaSemSenha(x) ==
  /\ SemSenha(x) /\ SemSenha(x.cliente)
  /\ x.admin # Undefined => SemSenha(x.admin[1])

ClientError == 400..499

Success == 200..299

\* the step is the handling of a request to a route without middleware that
\* runs in one piece (registration by /cadastro, login, POST /propostas): the
\* other steps change req, procs or the clock
SemMiddleware ==
  req' = req /\ procs' = procs /\ now' = now /\ issued' = issued

\* C28: a request that is answered 4xx has changed nothing in the store:
\* every step that answers 4xx, of registration, bootstrap, admin creation,
\* login and the proposal routes, leaves the store as it was, and every step
\* that changes the store answers its request 2xx.
C28_ClientErrorNoWrite ==
  [][/\ (req' # req /\ req'.stage = "done" /\ req'.res.status \in ClientError)
          => store' = store
     /\ (SemMiddleware /\ resp'.status \in ClientError)
          => store' = store
     /\ \A i \in DOMAIN procs :
          (/\ procs'[i] # procs[i] /\ procs'[i].pc = "done"
           /\ procs'[i].res.status \in ClientError)
          => store' = store
     /\ store' # store
          => \/ req' # req /\ req'.res.status \in Success
             \/ SemMiddleware /\ resp'.status \in Success
             \/ \E i \in DOMAIN procs :
                  /\ procs'[i] # procs[i] /\ procs'[i].pc = "done"
                  /\ procs'[i].res.status \in Success]_vars

\* PUT /propostas/:id/responder has been refused 400 by its handler, and the
\* proposal it addressed is stored without an answer
C28_Witness ==
  /\ req.route = "PUT /propostas/:id/responder" /\ req.stage = "done"
  /\ req.handled /\ req.res.status = 400
  /\ \E p \in propostas : p.id = req.id /\ p.resposta = Undefined

-----------------------------------------------------------------------------
(* The outcome of one invocation of a resolver (specification SpecAuth)     *)

\* C29: each invocation of authAdmin, authCliente, authOptional or
\* authAdminLevel ends in exactly one of two outcomes: next() called exactly
\* once and no response sent, or exactly one response sent and next() never
\* called; never both, and never neither (a request that has not been through
\* its resolver can always go through it).
C29_NextOrResponse ==
  /\ Ran => \/ req.nexts = 1 /\ req.sent = 0 /\ req.res = NoRes
            \/ req.nexts = 0 /\ req.sent = 1 /\ req.res # NoRes
  /\ ~Ran => /\ req.nexts = 0 /\ req.sent = 0
             /\ ENABLED NextAuth

\* authAdminLevel(3) has answered 403 to a valid token of a lower level and
\* has not handed the request on
C29_Witness ==
  /\ req.mw = "authAdminLevel" /\ req.levelRequired = 3 /\ Ran
  /\ req.res.status = 403
  /\ req.sent = 1 /\ req.nexts = 0

-----------------------------------------------------------------------------
(* The inline decision against canAccessResource (specification SpecPred)   *)

\* C27: the decision GET /propostas/:id and DELETE /propostas/:id take inline
\* agrees with canAccessResource(proposta.clienteId, ctx) for the client
\* identifier of every proposal and for every identity context: an admin and
\* a client identifier both present, neither, or empty strings.
C27_InlineAgrees ==
  (ret.fn = "canAccess" /\ resourceOwnerId # "")
  => ret.b = canAccessResource(resourceOwnerId, req)

\* the inline decision has refused a context whose two identifiers are empty
\* strings, on the proposal of a client
C27_Witness ==
  /\ ret.fn = "canAccess" /\ ~ret.b
  /\ req.adminLogadoId = Some("") /\ req.clienteLogadoId = Some("")
  /\ resourceOwnerId = "c1"

-----------------------------------------------------------------------------
(* The properties of SpecPropostas *)

\* C24: the data of a proposal of client A goes only to a request that holds
\* a valid admin token or a valid token of client A, on every route that
\* returns proposals: GET /propostas, /minhas-propostas, /:id and
\* /produto/:produtoId, PUT /:id/responder and PUT /:id.
C24_OwnProposalsOnly ==
  (/\ req.stage = "done" /\ req.handled /\ req.res.status = 200
   /\ req.route # "POST /admins" /\ req.res.body # Undefined)
  => \A x \in req.res.body[1] :
       /\ BearerHeader /\ SignedByProcess(Presented)
       /\ ~ExpiryPast(Presented, now)
       /\ \/ HasAdminClaims(Presented)
          \/ Presented.payload.clienteLogadoId = Some(x.clienteId)

-----------------------------------------------------------------------------
(* The properties of SpecPatch *)

\* slot i holds a PATCH /propostas/:id that authCliente has let through
\* with the identity of a client
Patch(i) ==
  /\ procs[i].route = "PATCH /propostas/:id"
  /\ procs[i].body[1].clienteLogadoId # Undefined

\* C25: PATCH /propostas/:id changes the description of a proposal only when
\* the proposal belongs to the authenticated client and has no response at
\* the moment of the update, also when the admin's PUT /:id/responder comes
\* between the check and the update; for a proposal of another client it
\* answers 404 and for an answered one 400, leaving the proposal unchanged.
C25_EditOnlyUnanswered ==
  [][\A i \in Procs :
       /\ (Patch(i) /\ procs[i].pc = "update" /\ propostas' # propostas)
            => \E p \in propostas :
                 /\ p.id = procs[i].body[1].id
                 /\ Some(p.clienteId) = procs[i].body[1].clienteLogadoId
                 /\ p.resposta = Undefined
       /\ (/\ Patch(i) /\ procs[i].pc = "findFirst"
           /\ procs'[i].pc # "findFirst" /\ ~procs'[i].falha)
            => /\ (\E p \in propostas :
                     /\ p.id = procs[i].body[1].id
                     /\ Some(p.clienteId) # procs[i].body[1].clienteLogadoId)
                    => /\ procs'[i].res.status = 404
                       /\ propostas' = propostas
               /\ (\E p \in propostas :
                     /\ p.id = procs[i].body[1].id
                     /\ Some(p.clienteId) = procs[i].body[1].clienteLogadoId
                     /\ p.resposta # Undefined)
                    => /\ procs'[i].res.status = 400
                       /\ propostas' = propostas]_vars

-----------------------------------------------------------------------------
(* The properties of SpecVida *)

\* C21: every request is answered in the end, also when a store operation
\* fails: a rejected store call, the existence checks before the create
\* included, leads to an error response, and no store call is made again.
C21_AlwaysAnswered ==
  \A i \in Procs :
    /\ Handling(i) ~> procs[i].pc = "done"
    /\ [](procs[i].falha => procs[i].pc = "done" /\ procs[i].res.status >= 500)

====
